---- MODULE Spec2Model ----
(***************************************************************************)
(* A model of the tree-walking interpreter of math-lang-again: the value   *)
(* model (value.rs), the set engine (set.rs), the environment chain        *)
(* (environment.rs) and the evaluator (interpreter.rs).                    *)
(*                                                                         *)
(* Environments live in a heap `envs` (a sequence of scopes addressed by   *)
(* index, the index standing for the Rc<RefCell<Env>> pointer).  A panic   *)
(* of the Rust code is an error result: the statement that raised it       *)
(* leaves the state as it was at the panic and the run stops.              *)
(***************************************************************************)
EXTENDS Integers, Sequences, FiniteSets, TLC

VARIABLES
    envs,       \* heap of scopes: envs[i] = [parent, symbols]; 1 is the root scope
    set_pool,   \* Interpreter.set_pool of the root interpreter: a sequence of Rc<CanonSet>
    rc,         \* number of Rc<CanonSet> allocations made so far (the next one is rc + 1)
    res,        \* what the last executed statement did: [by, stmt, is_to_log, err, val]
    steps,      \* number of statements executed
    sub,        \* scope of a second interpreter made by Interpreter::with_env, 0 if none
    sub_pool,   \* the set_pool of that second interpreter
    probe,      \* operands and results of the value-level operations (SpecVal)
    stdout,     \* the lines the statements have printed, in order
    stmts       \* the program given to Interpreter::interpret as a whole, <<>> if none

vars == <<envs, set_pool, rc, res, steps, sub, sub_pool, probe, stdout, stmts>>

(***************************************************************************)
(* Bounds of the model.                                                    *)
(***************************************************************************)
MaxSteps == 3       \* statements executed in one run
MaxNum == 2         \* numerators and denominators of the numbers compared
MaxElems == 2       \* element expressions of a set built for comparison
DigitBits == 3      \* bits of one digit of an exponent (the source's digits are u32: 32 bits)

(***************************************************************************)
(* Rationals: num's BigRational, always reduced with a positive            *)
(* denominator.                                                            *)
(***************************************************************************)
Abs(n) == IF n < 0 THEN -n ELSE n

RECURSIVE Gcd(_, _)
Gcd(a, b) == IF b = 0 THEN a ELSE Gcd(b, a % b)

\* BigRational::new(n, d): reduce, keep the sign in the numerator
Ratio(n, d) ==
    LET g == Gcd(Abs(n), Abs(d))
        s == IF d < 0 THEN -1 ELSE 1
    IN  [n |-> (s * n) \div g, d |-> Abs(d) \div g]

\* BigRational::from(BigInt)
RatFromInt(n) == [n |-> n, d |-> 1]

RatZero == RatFromInt(0)

RatAdd(p, q) == Ratio(p.n * q.d + q.n * p.d, p.d * q.d)
RatNeg(p) == [n |-> -p.n, d |-> p.d]
RatMul(p, q) == Ratio(p.n * q.n, p.d * q.d)

(***************************************************************************)
(* Values (Box<dyn Val>), one record shape per implementor of Val.         *)
(***************************************************************************)
IntV(n) == [k |-> "int", n |-> n]
RatV(q) == [k |-> "rat", q |-> q]
CxV(re, im) == [k |-> "cx", re |-> re, im |-> im]
StrV(s) == [k |-> "str", s |-> s]
BoolV(b) == [k |-> "bool", b |-> b]
TupV(items) == [k |-> "tup", items |-> items]
\* an Rc<CanonSet>: `rc` is the identity of the allocation, `set` its content
SetV(id, set) == [k |-> "set", rc |-> id, set |-> set]
FuncV(env, arg_names, expr, codomain) ==
    [k |-> "func", env |-> env, arg_names |-> arg_names, expr |-> expr,
     codomain |-> codomain]
NoVal == [k |-> "none"]

is_num(v) == v.k \in {"int", "rat", "cx"}
is_str(v) == v.k = "str"

(***************************************************************************)
(* The canonical sets.                                                     *)
(***************************************************************************)
Infinite(name) == [t |-> "Infinite", name |-> name]
FiniteOf(elements, hash) == [t |-> "Finite", elements |-> elements, hash |-> hash]

RECURSIVE HashPanics(_)
RECURSIVE hash_val(_)
RECURSIVE HashSeq(_)
RECURSIVE compare(_, _)
RECURSIVE SeqEq(_, _)
RECURSIVE CanonEq(_, _)

\* hashing v reaches Func's hash, which is todo!()
HashPanics(v) ==
    CASE v.k = "func" -> TRUE
      [] v.k = "tup" -> \E i \in DOMAIN v.items : HashPanics(v.items[i])
      [] v.k = "set" ->
            /\ v.set.t = "Finite"
            /\ \E i \in DOMAIN v.set.elements : HashPanics(v.set.elements[i])
      [] OTHER -> FALSE

HashSeq(items) ==
    IF items = <<>> THEN <<>>
    ELSE <<hash_val(Head(items))>> \o HashSeq(Tail(items))

\* the sorted vector of element hashes, as the bag of the hashes
HashBag(hs) ==
    LET keys == {hs[i] : i \in DOMAIN hs}
    IN  [key \in keys |-> Cardinality({i \in DOMAIN hs : hs[i] = key})]

\* impl Hash for FiniteSet: the length, then the sorted element hashes
FiniteSetHash(elements) ==
    [h |-> "finite", len |-> Len(elements), hashes |-> HashBag(HashSeq(elements))]

\* derive(Hash) of CanonSet
CanonHash(set) ==
    IF set.t = "Finite" THEN FiniteSetHash(set.elements)
    ELSE [h |-> "infinite", name |-> set.name]

\* derive(Hash) of Complex<BigRational>: the real part, then the imaginary part
\* (Ratio's Hash is a function of the value of the ratio)
ComplexHash(re, im) == [h |-> "complex", re |-> re, im |-> im]

\* Val::hash_val: what the value feeds to the hasher
hash_val(v) ==
    CASE v.k = "int" -> ComplexHash(RatFromInt(v.n), RatZero)
      [] v.k = "rat" -> ComplexHash(v.q, RatZero)
      [] v.k = "cx" -> ComplexHash(v.re, v.im)
      [] v.k = "str" -> [h |-> "str", s |-> v.s]
      [] v.k = "bool" -> [h |-> "bool", b |-> v.b]
      [] v.k = "tup" -> [h |-> "tup", items |-> HashSeq(v.items)]
      [] v.k = "set" -> CanonHash(v.set)
      [] v.k = "func" -> [h |-> "panic"]

\* HashSet::contains: an element with the same hash that is equal to v
HContains(elements, v) ==
    \E i \in DOMAIN elements :
        /\ hash_val(elements[i]) = hash_val(v)
        /\ compare(v, elements[i])

\* HashSet::insert
HInsert(elements, v) ==
    IF HContains(elements, v) THEN elements ELSE Append(elements, v)

\* HashSet == HashSet: same length and every element of one is in the other
HashSetEq(a, b) ==
    /\ Len(a) = Len(b)
    /\ \A i \in DOMAIN a : HContains(b, a[i])

\* bool's compare, with the conjunction the source writes
BoolCompare(a, b) == a /\ b

SeqEq(a, b) ==
    /\ Len(a) = Len(b)
    /\ \A i \in DOMAIN a : compare(a[i], b[i])

\* derive(PartialEq) of CanonSet and FiniteSet
CanonEq(a, b) ==
    /\ a.t = b.t
    /\ IF a.t = "Finite"
       THEN HashSetEq(a.elements, b.elements) /\ a.hash = b.hash
       ELSE a.name = b.name

\* an equality of integers that promotes nothing
BigInt_compare_ints(a, b) == b.k = "int" /\ a.n = b.n

\* impl Val for BigInt
BigInt_compare(a, b) ==
    CASE b.k = "int" -> a.n = b.n
      [] b.k = "rat" -> RatFromInt(a.n) = b.q
      [] b.k = "cx" -> IF b.im # RatZero THEN FALSE ELSE b.re = RatFromInt(a.n)
      [] OTHER -> FALSE

\* impl Val for BigRational
BigRational_compare(a, b) ==
    CASE b.k = "rat" -> a.q = b.q
      [] b.k = "int" -> a.q = RatFromInt(b.n)
      [] b.k = "cx" -> b.im = RatZero /\ b.re = a.q
      [] OTHER -> FALSE

\* impl Val for Complex<BigRational>
Complex_compare(a, b) ==
    CASE b.k = "cx" -> a.re = b.re /\ a.im = b.im
      [] b.k = "rat" -> a.im = RatZero /\ a.re = b.q
      [] b.k = "int" -> a.im = RatZero /\ a.re = RatFromInt(b.n)
      [] OTHER -> FALSE

\* Val::compare
compare(a, b) ==
    CASE a.k = "int" -> BigInt_compare(a, b)
      [] a.k = "rat" -> BigRational_compare(a, b)
      [] a.k = "cx" -> Complex_compare(a, b)
      [] a.k = "str" -> b.k = "str" /\ a.s = b.s
      [] a.k = "bool" -> b.k = "bool" /\ BoolCompare(a.b, b.b)
      [] a.k = "tup" -> b.k = "tup" /\ SeqEq(a.items, b.items)
      [] a.k = "set" -> b.k = "set" /\ CanonEq(a.set, b.set)
      [] a.k = "func" -> b.k = "func"

FiniteSet_new(elements) == FiniteOf(elements, FiniteSetHash(elements))

(***************************************************************************)
(* Results of operations that may panic.                                   *)
(***************************************************************************)
Ok(v) == [err |-> "", v |-> v]
Fail(kind) == [err |-> kind, v |-> NoVal]

\* CanonSet::contains: "yes", "no", or the panic it ends in
CanonSet_contains(set, v) ==
    IF set.t = "Finite"
    THEN IF HashPanics(v) THEN "NotYetImplemented"
         ELSE IF HContains(set.elements, v) THEN "yes" ELSE "no"
    ELSE "NotYetImplemented"

\* FiniteSet::is_subset: "yes", "no", or the panic it ends in
FiniteSet_is_subset(set, other) ==
    IF other.t = "Finite"
    THEN IF CanonEq(set, other) THEN "yes" ELSE "no"
    ELSE "NotYetImplemented"

\* InfiniteSet::is_subset
InfiniteSet_is_subset(set, other) == "NotYetImplemented"

\* CanonSet::is_subset
CanonSet_is_subset(set, other) == "NotYetImplemented"

(***************************************************************************)
(* Display of the scalar values.  Text is a sequence of characters.        *)
(***************************************************************************)
DigitChars == <<"0", "1", "2", "3", "4", "5", "6", "7", "8", "9">>

RECURSIVE Digits(_)
Digits(n) ==
    IF n < 10 THEN <<DigitChars[n + 1]>>
    ELSE Digits(n \div 10) \o <<DigitChars[(n % 10) + 1]>>

IntText(n) == IF n < 0 THEN <<"-">> \o Digits(-n) ELSE Digits(n)

RatText(q) == IF q.d = 1 THEN IntText(q.n) ELSE IntText(q.n) \o <<"/">> \o IntText(q.d)

RECURSIVE display(_)
RECURSIVE TupleText(_)

\* the elements of a tuple, each followed by ", " but the last
TupleText(items) ==
    IF items = <<>> THEN <<>>
    ELSE IF Len(items) = 1 THEN display(items[1])
    ELSE display(items[1]) \o <<",", " ">> \o TupleText(Tail(items))

display(v) ==
    CASE v.k = "int" -> IntText(v.n)
      [] v.k = "rat" -> RatText(v.q)
      [] v.k = "cx" ->
            IF v.im.n < 0
            THEN RatText(v.re) \o <<"-">> \o RatText(RatNeg(v.im)) \o <<"i">>
            ELSE RatText(v.re) \o <<"+">> \o RatText(v.im) \o <<"i">>
      [] v.k = "str" -> v.s
      [] v.k = "bool" -> IF v.b THEN <<"t", "r", "u", "e">> ELSE <<"f", "a", "l", "s", "e">>
      [] v.k = "tup" -> <<"[">> \o TupleText(v.items) \o <<"]">>

(***************************************************************************)
(* The arithmetic tables of the evaluator.                                 *)
(***************************************************************************)
\* bool as u8
BoolInt(b) == IF b THEN 1 ELSE 0

CxAdd(a, b) == CxV(RatAdd(a.re, b.re), RatAdd(a.im, b.im))
CxMul(a, b) ==
    CxV(RatAdd(RatMul(a.re, b.re), RatNeg(RatMul(a.im, b.im))),
        RatAdd(RatMul(a.re, b.im), RatMul(a.im, b.re)))
CxFromRat(q) == CxV(q, RatZero)
CxFromInt(n) == CxFromRat(RatFromInt(n))

execute_neg(right) ==
    CASE right.k = "int" -> Ok(IntV(-right.n))
      [] right.k = "rat" -> Ok(RatV(RatNeg(right.q)))
      [] right.k = "cx" -> Ok(CxV(RatNeg(right.re), RatNeg(right.im)))
      [] right.k = "bool" -> Ok(right)
      [] OTHER -> Fail("UnsupportedOperation")

\* a concatenation that puts the right operand first
execute_sum_reversed(left, right) == Ok(StrV(display(right) \o display(left)))

execute_sum(left, right) ==
    CASE left.k = "str" -> Ok(StrV(left.s \o display(right)))
      [] left.k # "str" /\ right.k = "str" -> Ok(StrV(display(left) \o right.s))
      [] left.k = "int" /\ right.k # "str" ->
            CASE right.k = "int" -> Ok(IntV(left.n + right.n))
              [] right.k = "rat" -> Ok(RatV(RatAdd(RatFromInt(left.n), right.q)))
              [] right.k = "cx" -> Ok(CxAdd(CxFromInt(left.n), right))
              [] right.k = "bool" -> Ok(IntV(left.n + BoolInt(right.b)))
              [] OTHER -> Fail("UnsupportedOperation")
      [] left.k = "rat" /\ right.k # "str" ->
            CASE right.k = "int" -> Ok(RatV(RatAdd(left.q, RatFromInt(right.n))))
              [] right.k = "rat" -> Ok(RatV(RatAdd(left.q, right.q)))
              [] right.k = "cx" -> Ok(CxAdd(CxFromRat(left.q), right))
              [] right.k = "bool" -> Ok(RatV(RatAdd(left.q, RatFromInt(BoolInt(right.b)))))
              [] OTHER -> Fail("UnsupportedOperation")
      [] left.k = "cx" /\ right.k # "str" ->
            CASE right.k = "int" -> Ok(CxAdd(left, CxFromInt(right.n)))
              [] right.k = "rat" -> Ok(CxAdd(left, CxFromRat(right.q)))
              [] right.k = "cx" -> Ok(CxAdd(left, right))
              [] right.k = "bool" -> Ok(CxAdd(left, CxFromInt(BoolInt(right.b))))
              [] OTHER -> Fail("UnsupportedOperation")
      [] left.k = "bool" /\ right.k # "str" ->
            CASE right.k = "int" -> Ok(IntV(BoolInt(left.b) + right.n))
              [] right.k = "rat" -> Ok(RatV(RatAdd(RatFromInt(BoolInt(left.b)), right.q)))
              [] right.k = "cx" -> Ok(CxAdd(CxFromInt(BoolInt(left.b)), right))
              [] right.k = "bool" -> Ok(BoolV(left.b # right.b))
              [] OTHER -> Fail("UnsupportedOperation")
      [] OTHER -> Fail("UnsupportedOperation")

execute_diff(left, right) ==
    CASE left.k = "str" -> Fail("UnsupportedOperation")
      [] left.k # "str" /\ right.k = "str" -> Fail("UnsupportedOperation")
      [] left.k # "str" /\ right.k # "str" /\ is_num(left) /\ is_num(right) ->
            execute_sum(left, execute_neg(right).v)
      [] OTHER -> Fail("NotYetImplemented")

execute_prod(left, right) ==
    CASE left.k = "str" -> Fail("NotYetImplemented")
      [] left.k # "str" /\ right.k = "str" -> Fail("UnsupportedOperation")
      [] left.k = "int" /\ right.k # "str" ->
            CASE right.k = "int" -> Ok(IntV(left.n * right.n))
              [] right.k = "rat" -> Ok(RatV(RatMul(RatFromInt(left.n), right.q)))
              [] right.k = "cx" -> Ok(CxMul(CxFromInt(left.n), right))
              [] right.k = "bool" -> Ok(IntV(left.n * BoolInt(right.b)))
              [] OTHER -> Fail("UnsupportedOperation")
      [] left.k = "rat" /\ right.k # "str" ->
            CASE right.k = "int" -> Ok(RatV(RatMul(left.q, RatFromInt(right.n))))
              [] right.k = "rat" -> Ok(RatV(RatMul(left.q, right.q)))
              [] right.k = "cx" -> Ok(CxMul(CxFromRat(left.q), right))
              [] right.k = "bool" -> Ok(RatV(RatMul(left.q, RatFromInt(BoolInt(right.b)))))
              [] OTHER -> Fail("UnsupportedOperation")
      [] left.k = "cx" /\ right.k # "str" ->
            CASE right.k = "int" -> Ok(CxMul(left, CxFromInt(right.n)))
              [] right.k = "rat" -> Ok(CxMul(left, CxFromRat(right.q)))
              [] right.k = "cx" -> Ok(CxMul(left, right))
              [] right.k = "bool" -> Ok(CxMul(left, CxFromInt(BoolInt(right.b))))
              [] OTHER -> Fail("UnsupportedOperation")
      [] left.k = "bool" /\ right.k # "str" ->
            CASE right.k = "int" -> Ok(IntV(BoolInt(left.b) * right.n))
              [] right.k = "rat" -> Ok(RatV(RatMul(RatFromInt(BoolInt(left.b)), right.q)))
              [] right.k = "cx" -> Ok(CxMul(CxFromInt(BoolInt(left.b)), right))
              [] right.k = "bool" -> Ok(BoolV(left.b /\ right.b))
              [] OTHER -> Fail("UnsupportedOperation")
      [] OTHER -> Fail("UnsupportedOperation")

\* Ratio / Ratio; the caller has excluded a zero divisor
RatDiv(p, q) == Ratio(p.n * q.d, p.d * q.n)

\* Complex / Complex: the products over the squared norm of the divisor
CxNormSqr(b) == RatAdd(RatMul(b.re, b.re), RatMul(b.im, b.im))
CxDiv(a, b) ==
    CxV(RatDiv(RatAdd(RatMul(a.re, b.re), RatMul(a.im, b.im)), CxNormSqr(b)),
        RatDiv(RatAdd(RatMul(a.im, b.re), RatNeg(RatMul(a.re, b.im))), CxNormSqr(b)))

\* a division of ratios panics in Ratio::new when the divisor is zero
RatQuot(p, q) == IF q.n = 0 THEN Fail("DivisionByZero") ELSE Ok(RatV(RatDiv(p, q)))
CxQuot(a, b) ==
    IF CxNormSqr(b).n = 0 THEN Fail("DivisionByZero") ELSE Ok(CxDiv(a, b))

execute_quot(left, right) ==
    CASE left.k = "str" \/ right.k = "str" -> Fail("UnsupportedOperation")
      [] left.k = "int" /\ right.k # "str" ->
            CASE right.k = "int" -> RatQuot(RatFromInt(left.n), RatFromInt(right.n))
              [] right.k = "rat" -> RatQuot(RatFromInt(left.n), right.q)
              [] right.k = "cx" -> CxQuot(CxFromInt(left.n), right)
              [] OTHER -> Fail("UnsupportedOperation")
      [] left.k = "rat" /\ right.k # "str" ->
            CASE right.k = "int" -> RatQuot(left.q, RatFromInt(right.n))
              [] right.k = "rat" -> RatQuot(left.q, right.q)
              [] right.k = "cx" -> CxQuot(CxFromRat(left.q), right)
              [] OTHER -> Fail("UnsupportedOperation")
      [] left.k = "cx" /\ right.k # "str" ->
            CASE right.k = "int" -> CxQuot(left, CxFromInt(right.n))
              [] right.k = "rat" -> CxQuot(left, CxFromRat(right.q))
              [] right.k = "cx" -> CxQuot(left, right)
              [] OTHER -> Fail("UnsupportedOperation")
      [] OTHER -> Fail("UnsupportedOperation")

\* BigInt::to_u32_digits: the sign and the digits of the magnitude, lowest first
DigitBase == 2 ^ DigitBits

RECURSIVE MagnitudeDigits(_)
MagnitudeDigits(m) ==
    IF m = 0 THEN <<>> ELSE <<m % DigitBase>> \o MagnitudeDigits(m \div DigitBase)

to_u32_digits(n) ==
    [sign |-> IF n < 0 THEN "Minus" ELSE IF n = 0 THEN "NoSign" ELSE "Plus",
     digits |-> MagnitudeDigits(Abs(n))]

\* BigInt::pow and Ratio::pow by an unsigned exponent
RECURSIVE IntPow(_, _)
IntPow(b, e) == IF e = 0 THEN 1 ELSE b * IntPow(b, e - 1)

RatPow(q, e) == Ratio(IntPow(q.n, e), IntPow(q.d, e))

\* Ratio::recip of a ratio that is not zero
RatRecip(q) == Ratio(q.d, q.n)

\* p < q for two ratios
RatLess(p, q) == p.n * q.d < q.n * p.d

\* execute_power, integer base and integer exponent
IntPower(b, e) ==
    LET v == to_u32_digits(e)
    IN  IF e = 0
        THEN IF b = 0 THEN Fail("UnsupportedOperation") ELSE Ok(IntV(1))
        ELSE IF v.sign # "Minus"
        THEN IF Len(v.digits) > 1 THEN Fail("UnsupportedOperation")
             ELSE Ok(IntV(IntPow(b, v.digits[1])))
        ELSE IF b = 0 THEN Fail("UnsupportedOperation")
        ELSE IF b = 1 THEN Ok(IntV(1))
        ELSE IF Len(v.digits) > 1 THEN Ok(IntV(0))
        ELSE Ok(RatV(Ratio(1, IntPow(b, v.digits[1]))))

\* execute_power, rational base and integer exponent
RatPower(q, e) ==
    LET v == to_u32_digits(e)
        big == Len(v.digits) > 1
        neg == v.sign = "Minus"
        one == RatFromInt(1)
        pow == RatPow(q, v.digits[1])
        \* the branches that raise an error, and those that give 0, on a large exponent
        Outward == IF ~neg THEN IF big THEN Fail("UnsupportedOperation") ELSE Ok(RatV(pow))
                   ELSE IF big THEN Ok(IntV(0)) ELSE Ok(RatV(RatRecip(pow)))
        Inward == IF ~neg THEN IF big THEN Ok(IntV(0)) ELSE Ok(RatV(pow))
                  ELSE IF big THEN Fail("UnsupportedOperation") ELSE Ok(RatV(RatRecip(pow)))
    IN  IF e = 0
        THEN IF q = RatZero THEN Fail("UnsupportedOperation") ELSE Ok(IntV(1))
        ELSE IF ~RatLess(q, one) THEN Outward
        ELSE IF RatLess(RatZero, q) THEN Inward
        ELSE IF q = RatZero
        THEN IF ~neg THEN IF big THEN Ok(IntV(0)) ELSE Ok(RatV(pow))
             ELSE Fail("UnsupportedOperation")
        ELSE IF RatLess(RatNeg(one), q) THEN Inward
        ELSE IF q = RatNeg(one)
        THEN IF e % 2 = 0 THEN Ok(IntV(1)) ELSE Ok(IntV(-1))
        ELSE Outward

execute_power(left, right) ==
    CASE left.k = "set" -> Fail("NotYetImplemented")
      [] left.k # "set" /\ (left.k = "str" \/ right.k = "str") -> Fail("UnsupportedOperation")
      [] left.k = "int" /\ right.k # "str" ->
            CASE right.k = "int" -> IntPower(left.n, right.n)
              [] right.k \in {"rat", "cx"} -> Fail("NotYetImplemented")
              [] right.k = "bool" -> Ok(IntV(IntPow(left.n, BoolInt(right.b))))
              [] OTHER -> Fail("UnsupportedOperation")
      [] left.k = "rat" /\ right.k # "str" ->
            CASE right.k = "int" -> RatPower(left.q, right.n)
              [] right.k \in {"rat", "cx"} -> Fail("NotYetImplemented")
              [] right.k = "bool" -> Ok(RatV(RatPow(left.q, BoolInt(right.b))))
              [] OTHER -> Fail("UnsupportedOperation")
      [] left.k = "cx" /\ right.k # "str" ->
            IF right.k \in {"int", "rat", "cx", "bool"} THEN Fail("NotYetImplemented")
            ELSE Fail("UnsupportedOperation")
      [] OTHER -> Fail("UnsupportedOperation")

(***************************************************************************)
(* Expressions (ast.rs).                                                   *)
(***************************************************************************)
Literal(v) == [e |-> "Literal", v |-> v]
Symbol(name) == [e |-> "Symbol", name |-> name]
Group(x) == [e |-> "Group", x |-> x]
Unary(op, x) == [e |-> "Unary", op |-> op, x |-> x]
Binary(l, op, r) == [e |-> "Binary", l |-> l, op |-> op, r |-> r]
Call(f, args) == [e |-> "Call", f |-> f, args |-> args]
Assign(name, r) == [e |-> "Assign", name |-> name, r |-> r]
TypedAssign(name, t, r) == [e |-> "TypedAssign", name |-> name, t |-> t, r |-> r]
FuncExpr(params, body) == [e |-> "Func", params |-> params, body |-> body]
TupleExpr(items) == [e |-> "Tuple", items |-> items]
SetExpr(items) == [e |-> "Set", items |-> items]
TypeExpr(x, t) == [e |-> "TypeExpr", x |-> x, t |-> t]
FuncTypeExpr(x, arg_types, codom) ==
    [e |-> "FuncTypeExpr", x |-> x, arg_types |-> arg_types, codom |-> codom]
\* an elided argument of a call: the None of Option<Box<dyn Expr>>
Elided == [e |-> "None"]

(***************************************************************************)
(* Environments (environment.rs).                                          *)
(***************************************************************************)
NoSym == [s |-> "None"]
ValueSym(v) == [s |-> "Value", v |-> v]
TypeSym(set) == [s |-> "Type", set |-> set]
FuncTypeSym(args, codomain) == [s |-> "FuncType", args |-> args, codomain |-> codomain]

EmptySymbols == [n \in {} |-> NoSym]

Env_new(parent) == [parent |-> parent, symbols |-> EmptySymbols]

\* HashMap::insert
MapInsert(symbols, name, entry) ==
    [n \in (DOMAIN symbols) \cup {name} |-> IF n = name THEN entry ELSE symbols[n]]

\* a lookup that passes over the entries that are not values
RECURSIVE Env_get_value(_, _, _)
Env_get_value(heap, e, name) ==
    IF name \in DOMAIN heap[e].symbols /\ heap[e].symbols[name].s = "Value"
    THEN heap[e].symbols[name]
    ELSE IF heap[e].parent # 0 THEN Env_get_value(heap, heap[e].parent, name)
    ELSE NoSym

RECURSIVE Env_get(_, _, _)
Env_get(heap, e, name) ==
    IF name \in DOMAIN heap[e].symbols THEN heap[e].symbols[name]
    ELSE IF heap[e].parent # 0 THEN Env_get(heap, heap[e].parent, name)
    ELSE NoSym

RECURSIVE Env_get_set(_, _, _)
Env_get_set(heap, e, name) ==
    IF /\ name \in DOMAIN heap[e].symbols
       /\ heap[e].symbols[name].s = "Value"
       /\ heap[e].symbols[name].v.k = "set"
    THEN heap[e].symbols[name].v
    ELSE IF heap[e].parent # 0 THEN Env_get_set(heap, heap[e].parent, name)
    ELSE NoVal

\* a test that finds no name assigned
is_sym_assigned_never(heap, e, name) == FALSE

is_sym_assigned(heap, e, name) ==
    /\ name \in DOMAIN heap[e].symbols
    /\ heap[e].symbols[name].s = "Value"

\* insert_sym, insert_sym_type, insert_sym_func_type: write into the scope e itself
Env_insert(heap, e, name, entry) ==
    [heap EXCEPT ![e].symbols = MapInsert(heap[e].symbols, name, entry)]

(***************************************************************************)
(* The set pool.                                                           *)
(***************************************************************************)
PoolContains(pool, set) ==
    \E i \in DOMAIN pool :
        /\ CanonHash(pool[i].set) = CanonHash(set.set)
        /\ CanonEq(pool[i].set, set.set)

\* SetPool::intern: the pool afterwards, and the Rc it hands back
SetPool_intern(pool, set) ==
    [pool |-> IF ~PoolContains(pool, set) THEN Append(pool, set) ELSE pool,
     set |-> set]

(***************************************************************************)
(* The evaluator (interpreter.rs) and Func::call (value.rs).  An           *)
(* evaluation yields the value with the heap and the allocation count      *)
(* after it, or the panic it ends in.                                      *)
(***************************************************************************)
Done(v, heap, c) == [err |-> "", v |-> v, envs |-> heap, rc |-> c]
Panic(kind) == [err |-> kind, v |-> NoVal, envs |-> <<>>, rc |-> 0]
FromOp(o, heap, c) == IF o.err # "" THEN Panic(o.err) ELSE Done(o.v, heap, c)

\* the first panic of a sequence of traversals, "" if none panics
FirstErr(errs) ==
    IF \A i \in DOMAIN errs : errs[i] = "" THEN ""
    ELSE errs[CHOOSE i \in DOMAIN errs :
                /\ errs[i] # ""
                /\ \A j \in DOMAIN errs : j < i => errs[j] = ""]

\* the elements of seq at the indices in idx, in order, from index i on
RECURSIVE PickSeq(_, _, _)
PickSeq(seq, idx, i) ==
    IF i > Len(seq) THEN <<>>
    ELSE (IF i \in idx THEN <<seq[i]>> ELSE <<>>) \o PickSeq(seq, idx, i + 1)

\* the operators execute_expr dispatches to an arithmetic table
ArithOps == {"Plus", "Minus", "Star", "Slash", "Caret"}

BinOp(op, left, right) ==
    CASE op = "Plus" -> execute_sum(left, right)
      [] op = "Minus" -> execute_diff(left, right)
      [] op = "Star" -> execute_prod(left, right)
      [] op = "Slash" -> execute_quot(left, right)
      [] op = "Caret" -> execute_power(left, right)
      [] op \notin ArithOps -> Fail("NotYetImplemented")

\* substitute_symbols reaches a todo!(): a set literal or a shape it does not know
RECURSIVE SubstPanics(_)
SubstPanics(x) ==
    CASE x.e \in {"Literal", "Symbol"} -> FALSE
      [] x.e \in {"Group", "Unary"} -> SubstPanics(x.x)
      [] x.e = "Binary" -> SubstPanics(x.l) \/ SubstPanics(x.r)
      [] x.e = "Call" ->
            \/ SubstPanics(x.f)
            \/ \E i \in DOMAIN x.args : x.args[i] # Elided /\ SubstPanics(x.args[i])
      [] x.e = "Func" -> SubstPanics(x.body)
      [] x.e = "Tuple" -> \E i \in DOMAIN x.items : SubstPanics(x.items[i])
      [] OTHER -> TRUE

RECURSIVE substitute_symbols(_, _, _)
substitute_symbols(x, find_args, replace_with) ==
    CASE x.e = "Literal" -> x
      [] x.e = "Symbol" ->
            IF \E i \in DOMAIN find_args : find_args[i] = x.name
            THEN Symbol(replace_with[CHOOSE i \in DOMAIN find_args :
                            /\ find_args[i] = x.name
                            /\ \A j \in DOMAIN find_args : j < i => find_args[j] # x.name])
            ELSE x
      [] x.e = "Group" -> Group(substitute_symbols(x.x, find_args, replace_with))
      [] x.e = "Unary" -> Unary(x.op, substitute_symbols(x.x, find_args, replace_with))
      [] x.e = "Binary" ->
            Binary(substitute_symbols(x.l, find_args, replace_with), x.op,
                   substitute_symbols(x.r, find_args, replace_with))
      [] x.e = "Call" ->
            Call(substitute_symbols(x.f, find_args, replace_with),
                 [i \in DOMAIN x.args |->
                    IF x.args[i] = Elided THEN Elided
                    ELSE substitute_symbols(x.args[i], find_args, replace_with)])
      [] x.e = "Func" ->
            LET keep == {i \in DOMAIN find_args :
                            \A j \in DOMAIN x.params : x.params[j] # find_args[i]}
            IN  FuncExpr(x.params,
                         substitute_symbols(x.body, PickSeq(find_args, keep, 1),
                                            PickSeq(replace_with, keep, 1)))
      [] x.e = "Tuple" ->
            TupleExpr([i \in DOMAIN x.items |->
                        substitute_symbols(x.items[i], find_args, replace_with)])

\* the panic curry_expr ends in, "" if it returns
RECURSIVE CurryErr(_, _, _, _)
CurryErr(x, symbols, e, heap) ==
    CASE x.e = "Literal" -> ""
      [] x.e = "Symbol" ->
            IF Env_get(heap, e, x.name).s \in {"Value", "Type"} THEN ""
            ELSE "UndefinedSymbol"
      [] x.e \in {"Group", "Unary"} -> CurryErr(x.x, symbols, e, heap)
      [] x.e = "Binary" ->
            FirstErr(<<CurryErr(x.l, symbols, e, heap), CurryErr(x.r, symbols, e, heap)>>)
      [] x.e \in {"Tuple", "Set"} ->
            FirstErr([i \in DOMAIN x.items |-> CurryErr(x.items[i], symbols, e, heap)])
      [] x.e = "Call" ->
            FirstErr(<<CurryErr(x.f, symbols, e, heap)>> \o
                     [i \in DOMAIN x.args |->
                        IF x.args[i] = Elided THEN ""
                        ELSE CurryErr(x.args[i], symbols, e, heap)])
      [] OTHER -> "NotYetImplemented"

\* curry_expr: every symbol holding a value and not in `symbols` becomes a literal
RECURSIVE curry_expr(_, _, _, _)
curry_expr(x, symbols, e, heap) ==
    CASE x.e = "Literal" -> x
      [] x.e = "Symbol" ->
            LET s == Env_get(heap, e, x.name)
            IN  IF s.s = "Value" /\ \A i \in DOMAIN symbols : symbols[i] # x.name
                THEN Literal(s.v)
                ELSE x
      [] x.e = "Group" -> Group(curry_expr(x.x, symbols, e, heap))
      [] x.e = "Unary" -> Unary(x.op, curry_expr(x.x, symbols, e, heap))
      [] x.e = "Binary" ->
            Binary(curry_expr(x.l, symbols, e, heap), x.op,
                   curry_expr(x.r, symbols, e, heap))
      [] x.e = "Tuple" ->
            TupleExpr([i \in DOMAIN x.items |-> curry_expr(x.items[i], symbols, e, heap)])
      [] x.e = "Set" ->
            SetExpr([i \in DOMAIN x.items |-> curry_expr(x.items[i], symbols, e, heap)])
      [] x.e = "Call" ->
            Call(curry_expr(x.f, symbols, e, heap),
                 [i \in DOMAIN x.args |->
                    IF x.args[i] = Elided THEN Elided
                    ELSE curry_expr(x.args[i], symbols, e, heap)])

RECURSIVE execute_expr(_, _, _, _)
RECURSIVE EvalSeq(_, _, _, _, _)
RECURSIVE execute_set(_, _, _, _, _, _)
RECURSIVE Func_call(_, _, _, _)
RECURSIVE CallBind(_, _, _, _, _)

\* execute_literal
execute_literal(lit, heap, c) ==
    IF lit.k \in {"int", "rat", "cx", "str", "bool"} THEN Done(lit, heap, c)
    ELSE Panic("NotYetImplemented")

\* Func::from_func_expr: a fresh child scope holding every parameter with type Univ
Func_from_func_expr(x, parent, heap, c) ==
    LET univ == Env_get_set(heap, parent, "Univ")
        env == [parent |-> parent,
                symbols |-> [n \in {x.params[i] : i \in DOMAIN x.params} |-> TypeSym(univ)]]
    IN  IF univ = NoVal THEN Panic("UnwrapNone")
        ELSE Done(FuncV(Len(heap) + 1, x.params, x.body, univ), Append(heap, env), c)

\* a membership test that admits every argument
ArgCheck_any(typeset, val) == "yes"

\* typeset.contains(val) as Func::call asks it of a supplied argument
ArgCheck(typeset, val) == CanonSet_contains(typeset, val)

\* the loop of Func::call over the supplied arguments, from argument i on: the
\* symbols of the call scope after it, or the panic
CallBind(f, args, i, symbols, heap) ==
    LET Checked(arg_name, isin) ==
            IF isin = "no" THEN [err |-> "TypeMismatch", symbols |-> symbols]
            ELSE IF isin # "yes" THEN [err |-> isin, symbols |-> symbols]
            ELSE CallBind(f, args, i + 1,
                          MapInsert(symbols, arg_name, ValueSym(args[i])), heap)
        Typed(arg_name, s) ==
            IF s.s # "Type" THEN [err |-> "Unreachable", symbols |-> symbols]
            ELSE Checked(arg_name, ArgCheck(s.set.set, args[i]))
    IN  IF i > Len(args) THEN [err |-> "", symbols |-> symbols]
        ELSE IF args[i] = NoVal THEN CallBind(f, args, i + 1, symbols, heap)
        ELSE Typed(f.arg_names[i], Env_get(heap, f.env, f.arg_names[i]))

\* every parameter name, filled or not
CurriedArgs_all(f, args) == f.arg_names

\* the names of the parameters a call leaves unfilled, in their order
CurriedArgs(f, args) ==
    PickSeq(f.arg_names,
            {i \in DOMAIN f.arg_names : i > Len(args) \/ args[i] = NoVal}, 1)

\* a call that binds the arguments in the scope of the closure itself
Func_call_in_place(f, args, heap, c) ==
    LET Bound(b) ==
            IF b.err # "" THEN Panic(b.err)
            ELSE IF Len(CurriedArgs(f, args)) > 0
            THEN Done(FuncV(f.env, CurriedArgs(f, args), f.expr, f.codomain),
                      [heap EXCEPT ![f.env].symbols = b.symbols], c)
            ELSE execute_expr(f.expr, f.env, [heap EXCEPT ![f.env].symbols = b.symbols], c)
    IN  IF Len(args) > Len(f.arg_names) THEN Panic("ArityError")
        ELSE Bound(CallBind(f, args, 1, heap[f.env].symbols, heap))

\* Func::call; an elided argument is NoVal
Func_call(f, args, heap, c) ==
    LET Curried(curried_args, call_env, heap2, ce) ==
            IF ce # "" THEN Panic(ce)
            ELSE Done(FuncV(call_env, curried_args,
                            curry_expr(f.expr, curried_args, call_env, heap2),
                            f.codomain),
                      heap2, c)
        Body(curried_args, call_env, heap2) ==
            IF Len(curried_args) > 0
            THEN Curried(curried_args, call_env, heap2,
                         CurryErr(f.expr, curried_args, call_env, heap2))
            ELSE execute_expr(f.expr, call_env, heap2, c)
        Bound(b) ==
            IF b.err # "" THEN Panic(b.err)
            ELSE Body(CurriedArgs(f, args), Len(heap) + 1,
                      Append(heap, [parent |-> heap[f.env].parent, symbols |-> b.symbols]))
    IN  IF Len(args) > Len(f.arg_names) THEN Panic("ArityError")
        ELSE Bound(CallBind(f, args, 1, heap[f.env].symbols, heap))

\* the values of a sequence of expressions from index i on, evaluated in order;
\* an elided argument gives NoVal
EvalSeq(items, i, e, heap, c) ==
    IF i > Len(items) THEN [err |-> "", vs |-> <<>>, envs |-> heap, rc |-> c]
    ELSE IF items[i] = Elided
    THEN LET rest == EvalSeq(items, i + 1, e, heap, c)
         IN  [rest EXCEPT !.vs = <<NoVal>> \o @]
    ELSE LET r == execute_expr(items[i], e, heap, c)
             rest == EvalSeq(items, i + 1, e, r.envs, r.rc)
         IN  IF r.err # "" THEN [err |-> r.err, vs |-> <<>>, envs |-> heap, rc |-> c]
             ELSE [rest EXCEPT !.vs = <<r.v>> \o @]

\* execute_set, from element i on with `elements` inserted so far
execute_set(items, i, elements, e, heap, c) ==
    IF i > Len(items)
    THEN Done(SetV(c + 1, FiniteSet_new(elements)), heap, c + 1)
    ELSE LET r == execute_expr(items[i], e, heap, c)
         IN  IF r.err # "" THEN r
             ELSE IF HashPanics(r.v) THEN Panic("NotYetImplemented")
             ELSE execute_set(items, i + 1, HInsert(elements, r.v), e, r.envs, r.rc)

execute_expr(x, e, heap, c) ==
    CASE x.e = "Literal" -> execute_literal(x.v, heap, c)
      [] x.e = "Symbol" ->
            LET s == Env_get(heap, e, x.name)
            IN  IF s.s = "Value" THEN Done(s.v, heap, c) ELSE Panic("UndefinedSymbol")
      [] x.e = "Group" -> execute_expr(x.x, e, heap, c)
      [] x.e = "Unary" ->
            LET r == execute_expr(x.x, e, heap, c)
            IN  IF r.err # "" THEN r
                ELSE IF r.v.k = "func"
                THEN Done(FuncV(r.v.env, r.v.arg_names, Unary(x.op, Group(r.v.expr)),
                                r.v.codomain),
                          r.envs, r.rc)
                ELSE IF x.op = "Minus" THEN FromOp(execute_neg(r.v), r.envs, r.rc)
                ELSE Panic("NotYetImplemented")
      [] x.e = "Binary" ->
            LET l == execute_expr(x.l, e, heap, c)
                r == execute_expr(x.r, e, l.envs, l.rc)
                univ == Env_get_set(r.envs, e, "Univ")
            IN  IF l.err # "" THEN l
                ELSE IF r.err # "" THEN r
                ELSE IF l.v.k = "func" /\ r.v.k = "func"
                THEN IF Len(l.v.arg_names) # Len(r.v.arg_names) THEN Panic("ArityError")
                     ELSE IF SubstPanics(r.v.expr) THEN Panic("NotYetImplemented")
                     ELSE IF univ = NoVal THEN Panic("UnwrapNone")
                     ELSE Done(FuncV(l.v.env, l.v.arg_names,
                                     Binary(Group(l.v.expr), x.op,
                                            Group(substitute_symbols(r.v.expr,
                                                    r.v.arg_names, l.v.arg_names))),
                                     univ),
                               r.envs, r.rc)
                ELSE IF l.v.k = "func"
                THEN IF univ = NoVal THEN Panic("UnwrapNone")
                     ELSE Done(FuncV(l.v.env, l.v.arg_names,
                                     Binary(Group(l.v.expr), x.op, Literal(r.v)), univ),
                               r.envs, r.rc)
                ELSE IF r.v.k = "func"
                THEN IF univ = NoVal THEN Panic("UnwrapNone")
                     ELSE Done(FuncV(r.v.env, r.v.arg_names,
                                     Binary(Literal(l.v), x.op, Group(r.v.expr)), univ),
                               r.envs, r.rc)
                ELSE FromOp(BinOp(x.op, l.v, r.v), r.envs, r.rc)
      [] x.e = "Tuple" ->
            LET r == EvalSeq(x.items, 1, e, heap, c)
            IN  IF r.err # "" THEN Panic(r.err) ELSE Done(TupV(r.vs), r.envs, r.rc)
      [] x.e = "Set" -> execute_set(x.items, 1, <<>>, e, heap, c)
      [] x.e = "Func" -> Func_from_func_expr(x, e, heap, c)
      [] x.e = "Call" ->
            LET fv == execute_expr(x.f, e, heap, c)
                args == EvalSeq(x.args, 1, e, fv.envs, fv.rc)
            IN  IF fv.err # "" THEN fv
                ELSE IF fv.v.k # "func" THEN Panic("NotCallable")
                ELSE IF args.err # "" THEN Panic(args.err)
                ELSE Func_call(fv.v, args.vs, args.envs, args.rc)
      [] OTHER -> Panic("NotYetImplemented")

(***************************************************************************)
(* Statement execution.  A statement yields the value it computed and the  *)
(* heap, allocation count and set pool after it, or the panic with the     *)
(* heap, allocation count and set pool the interpreter is left with: those *)
(* at the panic of the statement's own code, those before the expression   *)
(* when the panic is raised inside the evaluation of an expression.        *)
(***************************************************************************)
StmtDone(v, heap, c, pool) ==
    [err |-> "", val |-> v, envs |-> heap, rc |-> c, pool |-> pool]
StmtPanic(kind, heap, c, pool) ==
    [err |-> kind, val |-> NoVal, envs |-> heap, rc |-> c, pool |-> pool]

\* the loop of execute_assign over a declared signature, from parameter i on:
\* the retyped symbols of the closure's scope and the pool after the interning
RECURSIVE RetypeLoop(_, _, _, _, _)
RetypeLoop(func, arg_types, i, symbols, pool) ==
    IF i > Len(arg_types) THEN [symbols |-> symbols, pool |-> pool]
    ELSE LET it == SetPool_intern(pool, arg_types[i])
         IN  RetypeLoop(func, arg_types, i + 1,
                        MapInsert(symbols, func.arg_names[i], TypeSym(it.set)), it.pool)

\* a guard that never finds the name assigned
AssignGuard_never(heap, e, name) == FALSE

\* is_sym_assigned as execute_assign and execute_typed_assign use it
AssignGuard(heap, e, name) == is_sym_assigned(heap, e, name)

\* the branch of execute_assign for a function value
AssignFunc(name, func, s, e, pool, heap, c) ==
    LET rt == RetypeLoop(func, s.args, 1, heap[func.env].symbols, pool)
        new_env == [parent |-> heap[func.env].parent, symbols |-> rt.symbols]
        right == [func EXCEPT !.env = Len(heap) + 1]
    IN  IF s.s # "FuncType"
        THEN StmtDone(func, Env_insert(heap, e, name, ValueSym(func)), c, pool)
        ELSE IF Len(func.arg_names) # Len(s.args) THEN StmtPanic("ArityError", heap, c, pool)
        ELSE IF func.env = e THEN StmtPanic("BorrowError", heap, c, pool)
        ELSE StmtDone(right,
                      Env_insert(Append(heap, new_env), e, name, ValueSym(right)),
                      c, rt.pool)

\* an assignment that binds the name before it tests the membership
AssignValue_bind_first(name, value, s, e, pool, heap, c) ==
    LET bound == Env_insert(heap, e, name, ValueSym(value))
    IN  IF s.s = "Type" /\ CanonSet_contains(s.set.set, value) # "yes"
        THEN StmtPanic("TypeMismatch", bound, c, pool)
        ELSE StmtDone(value, bound, c, pool)

\* the branch of execute_assign for any other value
AssignValue(name, value, s, e, pool, heap, c) ==
    LET Checked(isin) ==
            IF isin = "no" THEN StmtPanic("TypeMismatch", heap, c, pool)
            ELSE IF isin # "yes" THEN StmtPanic(isin, heap, c, pool)
            ELSE StmtDone(value, Env_insert(heap, e, name, ValueSym(value)), c, pool)
    IN  IF s.s = "Type" THEN Checked(CanonSet_contains(s.set.set, value))
        ELSE StmtDone(value, Env_insert(heap, e, name, ValueSym(value)), c, pool)

execute_assign(name, right, e, pool, heap, c) ==
    LET Bind(r) ==
            IF r.err # "" THEN StmtPanic(r.err, heap, c, pool)
            ELSE IF r.v.k = "func"
            THEN AssignFunc(name, r.v, Env_get(r.envs, e, name), e, pool, r.envs, r.rc)
            ELSE AssignValue(name, r.v, Env_get(r.envs, e, name), e, pool, r.envs, r.rc)
    IN  IF AssignGuard(heap, e, name) THEN StmtPanic("ReassignmentError", heap, c, pool)
        ELSE Bind(execute_expr(right, e, heap, c))

execute_typed_assign(name, typeset, right, e, pool, heap, c) ==
    LET Check(t, r, isin) ==
            IF r.err # "" THEN StmtPanic(r.err, t.envs, t.rc, pool)
            ELSE IF isin = "no" THEN StmtPanic("TypeMismatch", r.envs, r.rc, pool)
            ELSE IF isin # "yes" THEN StmtPanic(isin, r.envs, r.rc, pool)
            ELSE StmtDone(NoVal, Env_insert(r.envs, e, name, ValueSym(r.v)), r.rc, pool)
        Value(t, r) == Check(t, r, CanonSet_contains(t.v.set, r.v))
        Typed(t) ==
            IF t.err # "" THEN StmtPanic(t.err, heap, c, pool)
            ELSE IF t.v.k # "set" THEN StmtPanic("NotASet", t.envs, t.rc, pool)
            ELSE Value(t, execute_expr(right, e, t.envs, t.rc))
    IN  IF AssignGuard(heap, e, name) THEN StmtPanic("ReassignmentError", heap, c, pool)
        ELSE Typed(execute_expr(typeset, e, heap, c))

\* the TypeExpr branch of execute_stmt: a type declaration, or the unwritten cast
execute_type_expr(x, typeset, e, pool, heap, c) ==
    LET Declare(t, it) ==
            StmtDone(NoVal, Env_insert(t.envs, e, x.name, TypeSym(it.set)), t.rc, it.pool)
        Typed(t) ==
            IF t.err # "" THEN StmtPanic(t.err, heap, c, pool)
            ELSE IF t.v.k # "set" THEN StmtPanic("NotASet", t.envs, t.rc, pool)
            ELSE Declare(t, SetPool_intern(pool, t.v))
    IN  IF x.e # "Symbol" \/ is_sym_assigned(heap, e, x.name)
        THEN StmtPanic("NotYetImplemented", heap, c, pool)
        ELSE Typed(execute_expr(typeset, e, heap, c))

\* the loop of the FuncTypeExpr branch over the parameter types, from type i on
RECURSIVE EvalTypes(_, _, _, _, _)
EvalTypes(items, i, e, heap, c) ==
    LET Rest(r, rest) == [rest EXCEPT !.vs = <<r.v>> \o @]
        One(r) ==
            IF r.err # "" THEN [err |-> r.err, vs |-> <<>>, envs |-> heap, rc |-> c]
            ELSE IF r.v.k # "set"
            THEN [err |-> "NotASet", vs |-> <<>>, envs |-> heap, rc |-> c]
            ELSE Rest(r, EvalTypes(items, i + 1, e, r.envs, r.rc))
    IN  IF i > Len(items) THEN [err |-> "", vs |-> <<>>, envs |-> heap, rc |-> c]
        ELSE One(execute_expr(items[i], e, heap, c))

\* the FuncTypeExpr branch of execute_stmt
execute_func_type_expr(x, arg_types, codom, e, pool, heap, c) ==
    LET Codom(dom, cd) ==
            IF cd.err # "" THEN StmtPanic(cd.err, dom.envs, dom.rc, pool)
            ELSE IF cd.v.k # "set" THEN StmtPanic("NotASet", cd.envs, cd.rc, pool)
            ELSE StmtDone(NoVal,
                          Env_insert(cd.envs, e, x.name, FuncTypeSym(dom.vs, cd.v)),
                          cd.rc, pool)
        Dom(dom) ==
            IF dom.err # "" THEN StmtPanic(dom.err, heap, c, pool)
            ELSE Codom(dom, execute_expr(codom, e, dom.envs, dom.rc))
    IN  IF x.e # "Symbol" \/ is_sym_assigned(heap, e, x.name)
        THEN StmtPanic("NotYetImplemented", heap, c, pool)
        ELSE Dom(EvalTypes(arg_types, 1, e, heap, c))

\* the last branch of execute_stmt: the expression is evaluated and printed
execute_bare(x, e, pool, heap, c) ==
    LET Show(r) ==
            IF r.err # "" THEN StmtPanic(r.err, heap, c, pool)
            ELSE StmtDone(r.v, r.envs, r.rc, pool)
    IN  Show(execute_expr(x, e, heap, c))

\* execute_stmt on the expression of an ExprStmt, by the interpreter of scope e
execute_stmt(x, e, pool, heap, c) ==
    CASE x.e = "Assign" -> execute_assign(x.name, x.r, e, pool, heap, c)
      [] x.e = "TypedAssign" -> execute_typed_assign(x.name, x.t, x.r, e, pool, heap, c)
      [] x.e = "TypeExpr" -> execute_type_expr(x.x, x.t, e, pool, heap, c)
      [] x.e = "FuncTypeExpr" ->
            execute_func_type_expr(x.x, x.arg_types, x.codom, e, pool, heap, c)
      [] OTHER -> execute_bare(x, e, pool, heap, c)

(***************************************************************************)
(* The programs the model runs: the statements an interpreter is given.    *)
(***************************************************************************)
Num(n) == Literal(IntV(n))
S123 == SetExpr(<<Num(1), Num(2), Num(3)>>)
S12 == SetExpr(<<Num(1), Num(2)>>)
XplusY == Binary(Symbol("x"), "Plus", Symbol("y"))

AssignStmts ==
    {Assign("a", Num(2)), Assign("a", Num(5)), Assign("a", S123),
     Assign("s", S123), Assign("s", Symbol("a")),
     Assign("f", FuncExpr(<<"x", "y">>, XplusY)),
     Assign("f", FuncExpr(<<"x", "y">>, TupleExpr(<<XplusY, Symbol("s")>>))),
     Assign("f", Num(2)), Assign("x", Num(2)), Assign("y", Num(3)),
     Assign("g", Call(Symbol("f"), <<Num(1), Elided>>)),
     Assign("g", Call(Symbol("f"), <<Elided, Num(2)>>)),
     Assign("g", Call(Symbol("f"), <<Num(1)>>))}

TypedAssignStmts ==
    {TypedAssign("a", S123, Num(2)), TypedAssign("a", S123, Num(5)),
     TypedAssign("a", Symbol("Nat"), Unary("Minus", Num(1))),
     TypedAssign("a", Num(5), Num(2)),
     TypedAssign("a", SetExpr(<<Num(5)>>), Num(5))}

TypeExprStmts ==
    {TypeExpr(Symbol("a"), S123), TypeExpr(Symbol("a"), Symbol("Nat")),
     TypeExpr(Symbol("a"), Num(5)), TypeExpr(Symbol("s"), S123),
     TypeExpr(Symbol("f"), S123), TypeExpr(Num(2), S123)}

FuncTypeExprStmts ==
    {FuncTypeExpr(Symbol("f"), <<S12, S12>>, Symbol("Univ")),
     FuncTypeExpr(Symbol("f"), <<S12>>, Symbol("Univ")),
     FuncTypeExpr(Symbol("f"), <<S12, Num(5)>>, Symbol("Univ")),
     FuncTypeExpr(Symbol("f"), <<S12, Symbol("Nat")>>, Symbol("Univ"))}

BareStmts ==
    {Symbol("a"), XplusY,
     Call(Symbol("f"), <<Num(1), Num(2)>>),
     Call(Symbol("f"), <<Num(1), Num(5)>>),
     Call(Symbol("f"), <<Num(1), Num(2), Num(1)>>),
     Call(Symbol("g"), <<Num(2)>>)}

\* the statements given to the second interpreter
SubStmts ==
    {Assign("a", Num(5)), Assign("x", Num(2)), TypedAssign("a", S123, Num(2)),
     Symbol("a"), Symbol("x")}

(***************************************************************************)
(* The state after Interpreter::new().                                     *)
(***************************************************************************)
BuiltinNames == <<"Univ", "Empty", "Nat", "Int", "Real", "Complex", "Str">>

BuiltinSet(i) ==
    SetV(i, IF BuiltinNames[i] = "Empty" THEN FiniteSet_new(<<>>)
            ELSE Infinite(BuiltinNames[i]))

RootSymbols ==
    [n \in {BuiltinNames[i] : i \in DOMAIN BuiltinNames} |->
        ValueSym(BuiltinSet(CHOOSE i \in DOMAIN BuiltinNames : BuiltinNames[i] = n))]

NoRes == [by |-> 0, stmt |-> Elided, is_to_log |-> FALSE, err |-> "", val |-> NoVal]
NoProbe == [op |-> "none"]

\* the interpreter as Interpreter::new() leaves it, nothing executed yet
Constructed ==
    /\ envs = <<[parent |-> 0, symbols |-> RootSymbols]>>
    /\ set_pool = [i \in DOMAIN BuiltinNames |-> BuiltinSet(i)]
    /\ rc = Len(BuiltinNames)
    /\ res = NoRes
    /\ steps = 0
    /\ sub = 0
    /\ sub_pool = <<>>
    /\ probe = NoProbe
    /\ stdout = <<>>

Init ==
    /\ Constructed
    /\ stmts = <<>>

(***************************************************************************)
(* Interpreter::interpret: one statement after the other, until a panic.   *)
(***************************************************************************)
\* interpret goes on to the next statement: the program has one left, and no
\* statement before it panicked
Ready == steps < MaxSteps /\ res.err = ""

\* what println! is given: the name before the `=`, if any, and the value
Line(name, value) == [name |-> name, value |-> value]

\* no line at all
Printed_nothing(x, is_to_log, o) == <<>>

\* the lines execute_stmt prints for the statement ExprStmt(x, is_to_log) whose
\* outcome is o: `name = value` for a logged assignment, the value for an
\* expression that is no assignment and no declaration
Printed(x, is_to_log, o) ==
    IF o.err # "" THEN <<>>
    ELSE IF x.e = "Assign"
    THEN IF is_to_log THEN <<Line(x.name, o.val)>> ELSE <<>>
    ELSE IF x.e \in {"TypedAssign", "TypeExpr", "FuncTypeExpr"} THEN <<>>
    ELSE <<Line("", o.val)>>

\* what a statement leaves behind: its outcome, its output, and its effects
\* up to its return or its panic
Outcome(by, x, is_to_log, o) ==
    /\ steps' = steps + 1
    /\ stdout' = stdout \o Printed(x, is_to_log, o)
    /\ res' = [by |-> by, stmt |-> x, is_to_log |-> is_to_log, err |-> o.err, val |-> o.val]
    /\ envs' = o.envs
    /\ rc' = o.rc

\* execute_stmt by the root interpreter
Run(x, is_to_log) ==
    LET Effect(o) ==
            /\ Outcome(1, x, is_to_log, o)
            /\ set_pool' = o.pool
    IN  /\ Effect(execute_stmt(x, 1, set_pool, envs, rc))
        /\ UNCHANGED <<sub, sub_pool, probe, stmts>>

ExecAssign ==
    /\ Ready
    /\ \E x \in AssignStmts, is_to_log \in BOOLEAN : Run(x, is_to_log)

ExecTypedAssign ==
    /\ Ready
    /\ \E x \in TypedAssignStmts, is_to_log \in BOOLEAN : Run(x, is_to_log)

ExecTypeExpr ==
    /\ Ready
    /\ \E x \in TypeExprStmts, is_to_log \in BOOLEAN : Run(x, is_to_log)

ExecFuncTypeExpr ==
    /\ Ready
    /\ \E x \in FuncTypeExprStmts, is_to_log \in BOOLEAN : Run(x, is_to_log)

ExecExpr ==
    /\ Ready
    /\ \E x \in BareStmts, is_to_log \in BOOLEAN : Run(x, is_to_log)

Next ==
    \/ ExecAssign
    \/ ExecTypedAssign
    \/ ExecTypeExpr
    \/ ExecFuncTypeExpr
    \/ ExecExpr

Spec == Init /\ [][Next]_vars

(***************************************************************************)
(* A second interpreter, made by Interpreter::with_env on the scope of a   *)
(* function, runs statements in that scope.                                *)
(***************************************************************************)
BoundFuncs(heap, e) ==
    {n \in DOMAIN heap[e].symbols :
        /\ heap[e].symbols[n].s = "Value"
        /\ heap[e].symbols[n].v.k = "func"}

WithEnv ==
    /\ sub = 0
    /\ Ready
    /\ \E n \in BoundFuncs(envs, 1) :
          sub' = envs[1].symbols[n].v.env
    /\ sub_pool' = <<>>
    /\ UNCHANGED <<envs, set_pool, rc, res, steps, probe, stdout, stmts>>

\* execute_stmt by the second interpreter
RunSub(x, is_to_log) ==
    LET Effect(o) ==
            /\ Outcome(sub, x, is_to_log, o)
            /\ sub_pool' = o.pool
    IN  /\ Effect(execute_stmt(x, sub, sub_pool, envs, rc))
        /\ UNCHANGED <<sub, set_pool, probe, stmts>>

ExecSub ==
    /\ Ready
    /\ sub # 0
    /\ \E x \in SubStmts, is_to_log \in BOOLEAN : RunSub(x, is_to_log)

NextScoped ==
    \/ ExecAssign
    \/ ExecTypedAssign
    \/ ExecTypeExpr
    \/ ExecFuncTypeExpr
    \/ ExecExpr
    \/ WithEnv
    \/ ExecSub

SpecScoped == Init /\ [][NextScoped]_vars

(***************************************************************************)
(* The operations on values, applied to inputs from bounded sets.          *)
(***************************************************************************)
RatDomain == {Ratio(n, d) : n \in -MaxNum..MaxNum, d \in 1..MaxNum}

Numbers ==
    {IntV(n) : n \in -MaxNum..MaxNum}
    \cup {RatV(q) : q \in RatDomain}
    \cup {CxV(re, im) : re \in RatDomain, im \in RatDomain}

ProbeValues ==
    Numbers \cup {BoolV(TRUE), BoolV(FALSE), StrV(<<"a">>), StrV(<<>>)}

\* Val::compare and Val::hash_val on a pair of values
ProbeCompare ==
    /\ probe.op = "none"
    /\ \E a \in ProbeValues, b \in ProbeValues :
          probe' = [op |-> "compare", a |-> a, b |-> b,
                    eq |-> compare(a, b),
                    ha |-> hash_val(a), hb |-> hash_val(b)]
    /\ UNCHANGED <<envs, set_pool, rc, res, steps, sub, sub_pool, stdout, stmts>>

SetElems ==
    {IntV(1), RatV(RatFromInt(1)), CxV(RatFromInt(1), RatZero), IntV(2),
     BoolV(FALSE), StrV(<<"a">>)}

SeqsUpTo(S, n) == UNION {[1..k -> S] : k \in 0..n}

LiteralsOf(vs) == [i \in DOMAIN vs |-> Literal(vs[i])]

\* execute_set on two lists of element expressions
ProbeSet ==
    LET Both(xs, ys, a, b) ==
            probe' = [op |-> "set", xs |-> xs, ys |-> ys, a |-> a, b |-> b,
                      eq |-> compare(a, b), ha |-> hash_val(a), hb |-> hash_val(b)]
        Second(xs, ys, a) ==
            Both(xs, ys, a.v, execute_set(LiteralsOf(ys), 1, <<>>, 1, a.envs, a.rc).v)
    IN  /\ probe.op = "none"
        /\ \E xs \in SeqsUpTo(SetElems, MaxElems), ys \in SeqsUpTo(SetElems, MaxElems) :
              Second(xs, ys, execute_set(LiteralsOf(xs), 1, <<>>, 1, envs, rc))
        /\ UNCHANGED <<envs, set_pool, rc, res, steps, sub, sub_pool, stdout, stmts>>

\* CanonSet::contains on a set of Interpreter::new and a value
ProbeContains ==
    /\ probe.op = "none"
    /\ \E i \in DOMAIN BuiltinNames, v \in ProbeValues :
          probe' = [op |-> "contains", set |-> BuiltinSet(i), v |-> v,
                    isin |-> CanonSet_contains(BuiltinSet(i).set, v)]
    /\ UNCHANGED <<envs, set_pool, rc, res, steps, sub, sub_pool, stdout, stmts>>

\* the operands given to the arithmetic tables
Operands ==
    {IntV(n) : n \in -MaxNum..MaxNum}
    \cup {RatV(q) : q \in RatDomain}
    \cup {CxV(RatFromInt(re), RatFromInt(im)) : re \in -1..1, im \in -1..1}
    \cup {BoolV(TRUE), BoolV(FALSE), StrV(<<"a">>), StrV(<<>>)}

\* execute_neg on an operand
ProbeNeg ==
    /\ probe.op = "none"
    /\ \E a \in Operands :
          probe' = [op |-> "arith", oper |-> "Neg", a |-> a, b |-> NoVal,
                    r |-> execute_neg(a)]
    /\ UNCHANGED <<envs, set_pool, rc, res, steps, sub, sub_pool, stdout, stmts>>

\* execute_sum, execute_diff, execute_prod and execute_quot on a pair of operands
ProbeArith ==
    /\ probe.op = "none"
    /\ \E oper \in {"Plus", "Minus", "Star", "Slash"}, a \in Operands, b \in Operands :
          probe' = [op |-> "arith", oper |-> oper, a |-> a, b |-> b,
                    r |-> BinOp(oper, a, b)]
    /\ UNCHANGED <<envs, set_pool, rc, res, steps, sub, sub_pool, stdout, stmts>>

\* the bases and the exponents given to execute_power: the exponents reach past
\* one digit on both sides
Bases ==
    {IntV(n) : n \in -MaxNum..MaxNum}
    \cup {RatV(q) : q \in RatDomain}
    \cup {CxV(RatZero, RatFromInt(1)), BoolV(TRUE), StrV(<<"a">>)}

Exponents ==
    {IntV(n) : n \in -(DigitBase + 1)..(DigitBase + 1)}
    \cup {RatV(Ratio(1, 2)), CxV(RatZero, RatFromInt(1)), BoolV(TRUE), BoolV(FALSE),
          StrV(<<"a">>)}

ProbePower ==
    /\ probe.op = "none"
    /\ \E a \in Bases, b \in Exponents :
          probe' = [op |-> "arith", oper |-> "Caret", a |-> a, b |-> b,
                    r |-> BinOp("Caret", a, b)]
    /\ UNCHANGED <<envs, set_pool, rc, res, steps, sub, sub_pool, stdout, stmts>>

\* is_subset on two sets, each a finite set built by execute_set or a set of
\* Interpreter::new: the method of the variant of the first set, and the
\* method of CanonSet
ProbeSubset ==
    LET Built(xs) == execute_set(LiteralsOf(xs), 1, <<>>, 1, envs, rc).v
        Sets == {Built(xs) : xs \in SeqsUpTo(SetElems, MaxElems)}
                \cup {BuiltinSet(i) : i \in DOMAIN BuiltinNames}
    IN  /\ probe.op = "none"
        /\ \E a \in Sets, b \in Sets :
              probe' = [op |-> "subset", a |-> a, b |-> b,
                        variant |-> IF a.set.t = "Finite"
                                    THEN FiniteSet_is_subset(a.set, b.set)
                                    ELSE InfiniteSet_is_subset(a.set, b.set),
                        canon |-> CanonSet_is_subset(a.set, b.set)]
        /\ UNCHANGED <<envs, set_pool, rc, res, steps, sub, sub_pool, stdout, stmts>>

NextVal ==
    \/ ProbeSubset
    \/ ProbeCompare
    \/ ProbeSet
    \/ ProbeContains
    \/ ProbeNeg
    \/ ProbeArith
    \/ ProbePower

SpecVal == Init /\ [][NextVal]_vars

(***************************************************************************)
(* Interpreter::interpret on a whole program, taken from a set of programs *)
(* about functions: definitions with and without a declared signature,     *)
(* operators applied to functions, full and partial calls.                 *)
(***************************************************************************)
Sig(name, typeset) == FuncTypeExpr(Symbol(name), <<typeset>>, Symbol("Univ"))
Def(name, params, body) == Assign(name, FuncExpr(params, body))
\* (l op r)(args)
Combined(l, op, r, args) == Call(Group(Binary(l, op, r)), args)

Square == Binary(Symbol("x"), "Caret", Num(2))
DefF == Def("f", <<"x">>, Square)
DefG == Def("g", <<"y">>, Binary(Symbol("y"), "Plus", Num(1)))
\* a body that refers to the variable x of the scope around the function
DefGOuter == Def("g", <<"y">>, Binary(Symbol("x"), "Plus", Symbol("y")))
DefK == Def("k", <<"x", "y">>, XplusY)

\* f op g on two functions, applied to an argument
ComposePrograms ==
    {<<Sig("f", S123), DefF, Sig("g", S123), g,
       Combined(Symbol("f"), op, Symbol("g"), <<Num(n)>>)>> :
        g \in {DefG, DefGOuter}, op \in {"Plus", "Minus"}, n \in 1..2}
    \cup {<<Assign("x", Num(2)), Sig("f", S123), DefF, Sig("g", S123), g,
            Combined(Symbol("f"), "Minus", Symbol("g"), <<Num(1)>>)>> :
            g \in {DefG, DefGOuter}}
    \cup {<<DefF, DefK, Combined(Symbol("f"), "Plus", Symbol("k"), <<Num(1)>>)>>,
          <<DefK, DefF, Combined(Symbol("k"), "Plus", Symbol("f"), <<Num(1), Num(2)>>)>>}

Identity == Def("f", <<"x">>, Symbol("x"))
TextA == Literal(StrV(<<"a">>))
Pair == TupleExpr(<<Num(1), Num(2)>>)

\* f op c, c op f and -f on a function and a value, applied to an argument
LiftPrograms ==
    {<<Sig("f", S123), DefF, Combined(l, op, r, <<Num(n)>>)>> :
        l \in {Symbol("f")}, r \in {Num(3), Literal(BoolV(TRUE))},
        op \in {"Minus", "Slash"}, n \in 1..2}
    \cup {<<Sig("f", S123), DefF, Combined(l, op, r, <<Num(n)>>)>> :
            l \in {Num(3), Literal(BoolV(TRUE))}, r \in {Symbol("f")},
            op \in {"Minus", "Slash"}, n \in 1..2}
    \cup {<<Sig("f", S123), DefF,
            Call(Group(Unary("Minus", Symbol("f"))), <<Num(n)>>)>> : n \in 1..2}
    \cup {<<Sig("f", SetExpr(<<TextA>>)), Identity, Combined(l, "Plus", r, <<TextA>>)>> :
            l \in {Symbol("f")}, r \in {Num(1), TextA, Pair}}
    \cup {<<Sig("f", SetExpr(<<TextA>>)), Identity, Combined(l, "Plus", r, <<TextA>>)>> :
            l \in {Num(1), TextA, Pair}, r \in {Symbol("f")}}

\* a function of two parameters whose body refers to the name a of the scope
\* around it
DefFA == Def("f", <<"x", "y">>, Binary(XplusY, "Plus", Symbol("a")))
Sig2 == FuncTypeExpr(Symbol("f"), <<S12, S12>>, Symbol("Univ"))

\* a partial call of a function, kept as g, and a call of g; the name a has a
\* value, or a declared type only
PartialPrograms ==
    {<<a, Sig2, f, Assign("g", Call(Symbol("f"), args)), Call(Symbol("g"), <<Num(2)>>)>> :
        a \in {Assign("a", Num(2)), TypeExpr(Symbol("a"), S123)},
        f \in {DefFA, Def("f", <<"x", "y">>, XplusY)},
        args \in {<<Num(1), Elided>>, <<Elided, Num(1)>>, <<Num(1)>>}}

\* a function literal with the parameter p inside the body of a function
Nested(p, body) == FuncExpr(<<p>>, body)
YplusZ == Binary(Symbol("y"), "Plus", Symbol("z"))

\* f op g kept as h, and a partial call of f kept as g, on functions whose body
\* holds a function literal that rebinds a parameter, or rebinds another name
ShadowPrograms ==
    {<<DefF, Def("g", <<"y">>, Binary(Symbol("y"), "Star", Nested(p, YplusZ))),
       Assign("h", Binary(Symbol("f"), "Plus", Symbol("g")))>> : p \in {"y", "z"}}
    \cup {<<Sig2, Def("f", <<"x", "y">>, Binary(Symbol("x"), "Star", Nested(p, XplusY))),
            Assign("g", Call(Symbol("f"), <<Num(1)>>))>> : p \in {"x", "z"}}

\* a function without a declared signature, and a call that supplies its
\* parameter
CallPrograms ==
    {<<f, Call(Symbol("f"), <<a>>)>> :
        f \in {DefF, Identity}, a \in {Num(3), TextA, Literal(BoolV(TRUE))}}

\* a function whose parameter list repeats a name, a partial call of it kept
\* as g, and a call of g
RepeatPrograms ==
    {<<Sig2, Def("f", <<"x", "x">>, Symbol("x")), Assign("g", Call(Symbol("f"), args)),
       Call(Symbol("g"), <<Num(2)>>)>> :
        args \in {<<Num(1), Elided>>, <<Elided, Num(1)>>, <<Num(1)>>, <<Num(1), Num(2)>>}}

\* the same full call twice, and the same partial call twice with a call of
\* each result
AgainPrograms ==
    {<<Sig("f", S123), DefF, Call(Symbol("f"), <<Num(n)>>), Call(Symbol("f"), <<Num(n)>>)>> :
        n \in {2, 5}}
    \cup {<<Sig2, Def("f", <<"x", "y">>, XplusY), Assign("g", Call(Symbol("f"), args)),
            Assign("h", Call(Symbol("f"), args)), Call(Symbol("g"), <<Num(2)>>),
            Call(Symbol("h"), <<Num(2)>>), Call(Symbol("f"), <<Num(1), Num(2)>>)>> :
            args \in {<<Num(1), Elided>>, <<Elided, Num(1)>>}}

Programs ==
    ComposePrograms \cup LiftPrograms \cup PartialPrograms \cup ShadowPrograms
    \cup CallPrograms \cup RepeatPrograms \cup AgainPrograms

Interpret ==
    /\ steps < Len(stmts)
    /\ res.err = ""
    /\ \E is_to_log \in BOOLEAN : Run(stmts[steps + 1], is_to_log)

InitProgram ==
    /\ Constructed
    /\ stmts \in Programs

NextProgram == Interpret

SpecProgram == InitProgram /\ [][NextProgram]_vars

(***************************************************************************)
(* What the specification says of values and sets, stated on its own       *)
(* terms: equality of values and membership in a set.                      *)
(***************************************************************************)
ReOf(v) == CASE v.k = "int" -> [n |-> v.n, d |-> 1] [] v.k = "rat" -> v.q [] v.k = "cx" -> v.re
ImOf(v) == IF v.k = "cx" THEN v.im ELSE [n |-> 0, d |-> 1]
SameRatio(p, q) == p.n * q.d = q.n * p.d
SameNumber(a, b) == SameRatio(ReOf(a), ReOf(b)) /\ SameRatio(ImOf(a), ImOf(b))

\* equality of two values that are numbers, texts or booleans
SameValue(a, b) ==
    IF is_num(a) /\ is_num(b) THEN SameNumber(a, b)
    ELSE /\ a.k = b.k
         /\ a.k \in {"str", "bool"}
         /\ a = b

IsIntegral(v) == is_num(v) /\ ImOf(v).n = 0 /\ ReOf(v).n % ReOf(v).d = 0

\* membership of a number, text or boolean in a set
IsMember(v, set) ==
    IF set.t = "Finite" THEN \E i \in DOMAIN set.elements : SameValue(set.elements[i], v)
    ELSE CASE set.name = "Univ" -> TRUE
           [] set.name = "Nat" -> IsIntegral(v) /\ ReOf(v).n >= 0
           [] set.name = "Int" -> IsIntegral(v)
           [] set.name = "Real" -> is_num(v) /\ ImOf(v).n = 0
           [] set.name = "Complex" -> is_num(v)
           [] set.name = "Str" -> v.k = "str"

\* the scopes of the chain that starts at scope e
RECURSIVE Chain(_, _)
Chain(heap, e) == IF e = 0 THEN {} ELSE {e} \cup Chain(heap, heap[e].parent)

HoldsValue(heap, e, n) == n \in DOMAIN heap[e].symbols /\ heap[e].symbols[n].s = "Value"
HoldsType(heap, e, n) == n \in DOMAIN heap[e].symbols /\ heap[e].symbols[n].s = "Type"
HoldsFuncType(heap, e, n) ==
    n \in DOMAIN heap[e].symbols /\ heap[e].symbols[n].s = "FuncType"

\* the step is the execution of a statement
Executed == steps' = steps + 1
IsAssignment(x) == x.e \in {"Assign", "TypedAssign"}

(***************************************************************************)
(* Single assignment.                                                      *)
(***************************************************************************)
\* C1: once a name is bound to a value in the scope of an interpreter, every
\* later plain or typed assignment to it by that interpreter fails with a
\* reassignment error, and the name keeps its value
C1_SingleAssignment ==
    [][\A e \in DOMAIN envs : \A n \in DOMAIN envs[e].symbols :
          HoldsValue(envs, e, n) =>
              /\ HoldsValue(envs', e, n)
              /\ envs'[e].symbols[n] = envs[e].symbols[n]
              /\ (Executed /\ res'.by = e /\ IsAssignment(res'.stmt) /\ res'.stmt.name = n)
                    => res'.err = "ReassignmentError"]_vars

\* a reassignment was tried, and the name holds the value it had
C1_Witness ==
    /\ res.err = "ReassignmentError"
    /\ res.stmt = Assign("a", Num(5))
    /\ envs[1].symbols["a"] = ValueSym(IntV(2))

\* C2: an assignment to a name that holds a value in the current scope or in
\* any ancestor scope is rejected with a reassignment error
C2_AncestorReassignment ==
    [][(/\ Executed
        /\ IsAssignment(res'.stmt)
        /\ \E e \in Chain(envs, res'.by) : HoldsValue(envs, e, res'.stmt.name))
          => res'.err = "ReassignmentError"]_vars

(***************************************************************************)
(* Type constraints.                                                       *)
(***************************************************************************)
\* the value of the right-hand side of the assignment the step executes
RightValue == execute_expr(res'.stmt.r, res'.by, envs, rc)

\* C3: a plain assignment of a non-function value to an unassigned name declared
\* `x : S` binds the value exactly when it is a member of S, and otherwise fails
\* with a type mismatch and leaves the name with its constraint
C3_ConstrainedAssign ==
    [][(/\ Executed
        /\ res'.stmt.e = "Assign"
        /\ HoldsType(envs, res'.by, res'.stmt.name)
        /\ RightValue.err = ""
        /\ RightValue.v.k # "func")
          => LET n == res'.stmt.name
                 e == res'.by
             IN  IF IsMember(RightValue.v, envs[e].symbols[n].set.set)
                 THEN res'.err = "" /\ envs'[e].symbols[n] = ValueSym(RightValue.v)
                 ELSE /\ res'.err = "TypeMismatch"
                      /\ envs'[e].symbols[n] = envs[e].symbols[n]]_vars

\* the value of the type expression of the typed assignment the step executes
TypeValue == execute_expr(res'.stmt.t, res'.by, envs, rc)

\* C4: a typed assignment binds the name only if its type is a set containing
\* the value; a type that is no set gives a not-a-set error, a value that is no
\* member a type mismatch, and neither failure creates a binding
C4_TypedAssign ==
    [][(/\ Executed
        /\ res'.stmt.e = "TypedAssign"
        /\ ~HoldsValue(envs, res'.by, res'.stmt.name)
        /\ TypeValue.err = "")
          => LET n == res'.stmt.name
                 e == res'.by
                 v == execute_expr(res'.stmt.r, e, TypeValue.envs, TypeValue.rc)
             IN  IF TypeValue.v.k # "set"
                 THEN res'.err = "NotASet" /\ envs' = envs
                 ELSE v.err = "" =>
                        IF IsMember(v.v, TypeValue.v.set)
                        THEN res'.err = "" /\ envs'[e].symbols[n] = ValueSym(v.v)
                        ELSE res'.err = "TypeMismatch" /\ envs' = envs]_vars

\* C5: a name declared with a constraint S is only bound, by whatever statement,
\* to a member of S, and a name declared with a function signature only to a
\* function of the declared arity
C5_BoundWithinDeclaration ==
    [][\A e \in DOMAIN envs : \A n \in DOMAIN envs[e].symbols :
          HoldsValue(envs', e, n) =>
              /\ HoldsType(envs, e, n) =>
                    LET v == envs'[e].symbols[n].v
                    IN  IsMember(v, envs[e].symbols[n].set.set)
              /\ HoldsFuncType(envs, e, n) =>
                    LET v == envs'[e].symbols[n].v
                    IN  /\ v.k = "func"
                        /\ Len(v.arg_names) = Len(envs[e].symbols[n].args)]_vars

(***************************************************************************)
(* Sets.                                                                   *)
(***************************************************************************)
\* the set values a scope holds, as values and as type constraints
SetsHeld(heap, e) ==
    {heap[e].symbols[n].v : n \in {m \in DOMAIN heap[e].symbols :
        HoldsValue(heap, e, m) /\ heap[e].symbols[m].v.k = "set"}}
    \cup {heap[e].symbols[n].set : n \in {m \in DOMAIN heap[e].symbols :
        HoldsType(heap, e, m)}}

\* C6: structurally equal sets built in one interpreter, by set literals or type
\* declarations, are one shared instance
C6_SharedInstance ==
    \A a \in SetsHeld(envs, 1), b \in SetsHeld(envs, 1) :
        CanonEq(a.set, b.set) => a.rc = b.rc

SameElements(xs, ys) ==
    /\ \A i \in DOMAIN xs : \E j \in DOMAIN ys : SameValue(xs[i], ys[j])
    /\ \A j \in DOMAIN ys : \E i \in DOMAIN xs : SameValue(xs[i], ys[j])

\* how many different values a list of values holds
DistinctValues(xs) ==
    Cardinality({{j \in DOMAIN xs : SameValue(xs[i], xs[j])} : i \in DOMAIN xs})

\* C7: two finite sets built from the same elements, in whatever order and
\* however often written, are equal with equal hashes, and a set holds one
\* element for each value written
C7_FiniteSetCanonical ==
    probe.op = "set" =>
        /\ SameElements(probe.xs, probe.ys) => probe.eq /\ probe.ha = probe.hb
        /\ Len(probe.a.set.elements) = DistinctValues(probe.xs)

(***************************************************************************)
(* Partial application.                                                    *)
(***************************************************************************)
ArgVals == {IntV(1), IntV(2)}

\* a call on the result of a call
CallAgain(r, args) ==
    IF r.err # "" THEN r
    ELSE IF r.v.k # "func" THEN Panic("NotCallable")
    ELSE Func_call(r.v, args, r.envs, r.rc)

\* the ways of giving a1 and a2 to a function of two parameters in two calls
Routes(f, a1, a2, heap, c) ==
    {CallAgain(Func_call(f, <<a1, NoVal>>, heap, c), <<a2>>),
     CallAgain(Func_call(f, <<NoVal, a2>>, heap, c), <<a1>>),
     CallAgain(Func_call(f, <<a1>>, heap, c), <<a2>>),
     CallAgain(Func_call(f, <<>>, heap, c), <<a1, a2>>)}

\* C8: whenever the full call f(a1, a2) gives a value, giving the arguments over
\* two calls gives an equal value
C8_RoundTrip ==
    \A n \in BoundFuncs(envs, 1) :
        LET f == envs[1].symbols[n].v
        IN  Len(f.arg_names) = 2 =>
                \A a1 \in ArgVals, a2 \in ArgVals :
                    LET full == Func_call(f, <<a1, a2>>, envs, rc)
                    IN  full.err = "" =>
                            \A r \in Routes(f, a1, a2, envs, rc) :
                                r.err = "" /\ compare(r.v, full.v)

\* the parameter names an argument list leaves unfilled, from parameter i on
RECURSIVE Unfilled(_, _, _)
Unfilled(names, args, i) ==
    IF i > Len(names) THEN <<>>
    ELSE (IF i > Len(args) \/ args[i] = NoVal THEN <<names[i]>> ELSE <<>>)
         \o Unfilled(names, args, i + 1)

\* the argument lists that leave a parameter of f unfilled
PartialArgs(f) ==
    {args \in SeqsUpTo(ArgVals \cup {NoVal}, Len(f.arg_names)) :
        Unfilled(f.arg_names, args, 1) # <<>>}

\* g is the function a partial call of f with args returns: its parameters are
\* the unfilled ones in their order, and its scope is a copy of the scope of f
\* that holds the supplied arguments
IsPartialOf(g, f, args, heap) ==
    /\ g.k = "func"
    /\ g.arg_names = Unfilled(f.arg_names, args, 1)
    /\ g.env # f.env
    /\ heap[g.env].parent = heap[f.env].parent
    /\ DOMAIN heap[g.env].symbols = DOMAIN heap[f.env].symbols
    /\ \A i \in DOMAIN f.arg_names :
          heap[g.env].symbols[f.arg_names[i]] =
              IF i \in DOMAIN args /\ args[i] # NoVal THEN ValueSym(args[i])
              ELSE heap[f.env].symbols[f.arg_names[i]]

\* the argument values of a call whose arguments are literals
LiteralArgs(x) == [i \in DOMAIN x.args |-> IF x.args[i] = Elided THEN NoVal ELSE x.args[i].v]

C10_NumericEquality ==
    (probe.op = "compare" /\ is_num(probe.a) /\ is_num(probe.b)) =>
        /\ probe.eq <=> SameNumber(probe.a, probe.b)
        /\ SameNumber(probe.a, probe.b) => probe.ha = probe.hb

\* an integer was compared with its complex form, and found equal
C10_Witness ==
    /\ probe.op = "compare"
    /\ probe.a = IntV(2)
    /\ probe.b = CxV(RatFromInt(2), RatZero)
    /\ probe.eq
    /\ probe.ha = probe.hb

(***************************************************************************)
(* Membership in the sets of Interpreter::new.                             *)
(***************************************************************************)
\* C11: membership in a primitive set is decided by kind and range: Nat holds
\* the non-negative integral numbers, Int the integral ones, Real the numbers
\* without imaginary part, Complex every number, Str the texts, Univ every
\* value and Empty none
C11_Membership ==
    probe.op = "contains" =>
        probe.isin = IF IsMember(probe.v, probe.set.set) THEN "yes" ELSE "no"

(***************************************************************************)
(* Arithmetic.  The exact results are computed on pairs of unreduced       *)
(* ratios (real part, imaginary part), a boolean counting as 0 or 1.       *)
(***************************************************************************)
IsArith(v) == v.k \in {"int", "rat", "cx", "bool"}
NumRe(v) == IF v.k = "bool" THEN [n |-> BoolInt(v.b), d |-> 1] ELSE ReOf(v)
NumIm(v) == IF v.k = "bool" THEN [n |-> 0, d |-> 1] ELSE ImOf(v)

QAdd(p, q) == [n |-> p.n * q.d + q.n * p.d, d |-> p.d * q.d]
QMul(p, q) == [n |-> p.n * q.n, d |-> p.d * q.d]
QNeg(p) == [n |-> -p.n, d |-> p.d]

ExactNeg(a) == [re |-> QNeg(NumRe(a)), im |-> QNeg(NumIm(a))]
ExactSum(a, b) == [re |-> QAdd(NumRe(a), NumRe(b)), im |-> QAdd(NumIm(a), NumIm(b))]
ExactDiff(a, b) ==
    [re |-> QAdd(NumRe(a), QNeg(NumRe(b))), im |-> QAdd(NumIm(a), QNeg(NumIm(b)))]
ExactProd(a, b) ==
    [re |-> QAdd(QMul(NumRe(a), NumRe(b)), QNeg(QMul(NumIm(a), NumIm(b)))),
     im |-> QAdd(QMul(NumRe(a), NumIm(b)), QMul(NumIm(a), NumRe(b)))]

Exact(oper, a, b) ==
    CASE oper = "Neg" -> ExactNeg(a)
      [] oper = "Plus" -> ExactSum(a, b)
      [] oper = "Minus" -> ExactDiff(a, b)
      [] oper = "Star" -> ExactProd(a, b)

\* the operation returned a value that is the number x
Gives(r, x) ==
    /\ r.err = ""
    /\ IsArith(r.v)
    /\ SameRatio(NumRe(r.v), x.re)
    /\ SameRatio(NumIm(r.v), x.im)

\* C12: negation, addition, subtraction and multiplication of integers,
\* rationals, complexes and booleans, in every combination of kinds, return the
\* exact result with true counted as 1 and false as 0
C12_ExactArithmetic ==
    (/\ probe.op = "arith"
     /\ probe.oper \in {"Neg", "Plus", "Minus", "Star"}
     /\ IsArith(probe.a)
     /\ probe.oper # "Neg" => IsArith(probe.b))
       => Gives(probe.r, Exact(probe.oper, probe.a, probe.b))

\* the probe raised an integer or rational base to an integer exponent
IsPower == probe.op = "arith" /\ probe.oper = "Caret"
RealBase == probe.a.k \in {"int", "rat"}
BaseIs(n) == SameRatio(ReOf(probe.a), [n |-> n, d |-> 1])
One == [re |-> [n |-> 1, d |-> 1], im |-> [n |-> 0, d |-> 1]]
MinusOne == [re |-> [n |-> -1, d |-> 1], im |-> [n |-> 0, d |-> 1]]

\* C13: for an integer or rational base b and an integer exponent e, b^0 is 1
\* when b is not zero, 0^0 and 0 to a negative exponent fail, and a base of -1
\* gives 1 for an even e and -1 for an odd e
C13_PowerEdgeCases ==
    (IsPower /\ RealBase /\ probe.b.k = "int") =>
        LET e == probe.b.n
        IN  /\ (e = 0 /\ ~BaseIs(0)) => Gives(probe.r, One)
            /\ (e <= 0 /\ BaseIs(0)) => probe.r.err # ""
            /\ BaseIs(-1) => Gives(probe.r, IF e % 2 = 0 THEN One ELSE MinusOne)

\* the magnitude of the exponent does not fit in one digit
TooLarge(e) == Abs(e) >= DigitBase

\* C14: an integer exponent too large to materialize makes the exponentiation
\* fail, whatever the base and the sign of the exponent
C14_LargeExponentFails ==
    (IsPower /\ probe.b.k = "int" /\ TooLarge(probe.b.n)) => probe.r.err # ""

CallVals == {IntV(1), IntV(5), IntV(-1)}

\* the supplied arguments that are no member of the constraint their parameter
\* has in the scope of f
Offending(f, args, heap) ==
    {i \in DOMAIN args :
        /\ args[i] # NoVal
        /\ Env_get(heap, f.env, f.arg_names[i]).s = "Type"
        /\ ~IsMember(args[i], Env_get(heap, f.env, f.arg_names[i]).set.set)}

\* C16: a call with more arguments than parameters fails, and a call that
\* supplies an argument outside the constraint of its parameter fails in the
\* binding of the arguments, before the body is evaluated or curried
C16_CallRejects ==
    \A n \in BoundFuncs(envs, 1) :
        LET f == envs[1].symbols[n].v
            k == Len(f.arg_names)
        IN  /\ \A args \in [1..(k + 1) -> CallVals \cup {NoVal}] :
                  Func_call(f, args, envs, rc).err = "ArityError"
            /\ \A args \in SeqsUpTo(CallVals \cup {NoVal}, k) :
                  Offending(f, args, envs) # {} =>
                      /\ Func_call(f, args, envs, rc).err # ""
                      /\ Func_call(f, args, envs, rc).err =
                            CallBind(f, args, 1, envs[f.env].symbols, envs).err

\* f(1, 5) was called on an f whose second parameter is constrained to {1, 2},
\* or f was called with three arguments
C16_Witness ==
    /\ res.stmt.e = "Call"
    /\ BoundFuncs(envs, 1) # {}
    /\ \/ /\ res.stmt = Call(Symbol("f"), <<Num(1), Num(5)>>)
          /\ res.err = "TypeMismatch"
          /\ Offending(envs[1].symbols["f"].v, <<IntV(1), IntV(5)>>, envs) = {2}
       \/ /\ res.stmt = Call(Symbol("f"), <<Num(1), Num(2), Num(1)>>)
          /\ res.err = "ArityError"

\* C17: when a function is assigned to a name declared with k parameter types,
\* the assignment fails if the arity is not k, and otherwise the stored closure
\* has the i-th declared type as the constraint of its i-th parameter, so that
\* a call with an argument outside its declared set fails with a type mismatch
C17_DeclaredSignature ==
    [][(/\ Executed
        /\ res'.stmt.e = "Assign"
        /\ HoldsFuncType(envs, res'.by, res'.stmt.name)
        /\ RightValue.err = ""
        /\ RightValue.v.k = "func")
          => LET n == res'.stmt.name
                 e == res'.by
                 sig == envs[e].symbols[n].args
                 k == Len(sig)
             IN  IF Len(RightValue.v.arg_names) # k
                 THEN res'.err = "ArityError" /\ envs' = envs
                 ELSE /\ res'.err = ""
                      /\ LET g == envs'[e].symbols[n].v
                         IN  /\ g.k = "func"
                             /\ \A i \in 1..k :
                                   Env_get(envs', g.env, g.arg_names[i]) = TypeSym(sig[i])
                             /\ \A args \in [1..k -> CallVals] :
                                   (\E i \in 1..k : ~IsMember(args[i], sig[i].set)) =>
                                       Func_call(g, args, envs', rc').err = "TypeMismatch"]_vars

(***************************************************************************)
(* Type declarations and symbols.                                          *)
(***************************************************************************)
\* C18: `x : T` on a bare symbol that holds no value records T as the
\* constraint of x when T is a set and fails with a not-a-set error when it is
\* not; on an assigned symbol, or on a left side that is no bare symbol, it
\* fails as not yet implemented; and a failure leaves the environment unchanged
C18_TypeDeclaration ==
    [][(Executed /\ res'.stmt.e = "TypeExpr") =>
          LET x == res'.stmt.x
              e == res'.by
          IN  IF x.e = "Symbol" /\ ~HoldsValue(envs, e, x.name)
              THEN TypeValue.err = "" =>
                      IF TypeValue.v.k = "set"
                      THEN /\ res'.err = ""
                           /\ envs'[e].symbols[x.name] = TypeSym(TypeValue.v)
                      ELSE res'.err = "NotASet" /\ envs' = envs
              ELSE res'.err = "NotYetImplemented" /\ envs' = envs]_vars

\* `a : {1,2,3}` was executed on an assigned a and failed as a type cast
C18_Witness ==
    /\ res.stmt = TypeExpr(Symbol("a"), S123)
    /\ res.err = "NotYetImplemented"
    /\ HoldsValue(envs, 1, "a")

\* the nearest scope of the chain from e that has an entry for the name, 0 if none
RECURSIVE Holder(_, _, _)
Holder(heap, e, name) ==
    IF e = 0 THEN 0
    ELSE IF name \in DOMAIN heap[e].symbols THEN e
    ELSE Holder(heap, heap[e].parent, name)

Names == {"a", "s", "f", "g", "x", "y", "Nat", "zz"}

\* C19: in every scope, a symbol evaluates to its value exactly when the
\* nearest entry for its name along the chain is a value, and otherwise (no
\* entry, a type constraint, a function signature) gives a not-defined error
C19_SymbolLookup ==
    \A e \in DOMAIN envs : \A n \in Names :
        LET h == Holder(envs, e, n)
            r == execute_expr(Symbol(n), e, envs, rc)
        IN  IF h # 0 /\ HoldsValue(envs, h, n)
            THEN r.err = "" /\ r.v = envs[h].symbols[n].v
            ELSE r.err = "UndefinedSymbol"

\* the interpreter of a function's scope evaluated x, which is a parameter with
\* a type constraint there and holds a value in the root scope
C19_Witness ==
    /\ res.by = sub
    /\ sub # 0
    /\ res.stmt = Symbol("x")
    /\ res.err = "UndefinedSymbol"
    /\ HoldsType(envs, sub, "x")
    /\ HoldsValue(envs, 1, "x")

(***************************************************************************)
(* Output.                                                                 *)
(***************************************************************************)
\* a statement that is a bare expression: no assignment and no declaration
IsExpressionStmt(x) == x.e \notin {"Assign", "TypedAssign", "TypeExpr", "FuncTypeExpr"}

\* the text of a printed line whose value is a number, a text or a boolean
LineText(line) ==
    (IF line.name = "" THEN <<>> ELSE <<line.name, " ", "=", " ">>) \o display(line.value)

\* C20: the output of a run has exactly one line for each executed expression
\* statement, in the order of the statements, that shows the value of the
\* statement; no other statement prints
C20_OneLinePerExpression ==
    [][IF Executed /\ res'.err = "" /\ IsExpressionStmt(res'.stmt)
       THEN stdout' = Append(stdout, Line("", res'.val))
       ELSE stdout' = stdout]_vars

\* C20, amended: an executed expression statement appends one line showing its
\* value, an executed plain assignment appends the line `name = value` exactly
\* when its log flag is set, and no other statement and no failed statement
\* prints; lines are only ever appended
C20_PrintedLines ==
    [][IF Executed /\ res'.err = "" /\ IsExpressionStmt(res'.stmt)
       THEN stdout' = Append(stdout, Line("", res'.val))
       ELSE IF Executed /\ res'.err = "" /\ res'.stmt.e = "Assign" /\ res'.is_to_log
       THEN stdout' = Append(stdout, Line(res'.stmt.name, envs'[res'.by].symbols[res'.stmt.name].v))
       ELSE stdout' = stdout]_vars

\* `x = 2; y = 3; x + y` was run with the first assignment logged: the output
\* is the line `x = 2` and then the line 5
C20_Witness ==
    /\ steps = 3
    /\ res.stmt = XplusY
    /\ res.err = ""
    /\ Len(stdout) = 2
    /\ LineText(stdout[1]) = <<"x", " ", "=", " ", "2">>
    /\ LineText(stdout[2]) = <<"5">>

(***************************************************************************)
(* Errors.                                                                 *)
(***************************************************************************)
\* the first panic among the expressions the statement x evaluates, in the
\* order execute_stmt evaluates them; "" if none panics
OperandErr(x, e, heap, c) ==
    LET Then(t, second) ==
            IF t.err # "" THEN t.err
            ELSE IF t.v.k # "set" THEN ""
            ELSE execute_expr(second, e, t.envs, t.rc).err
    IN  CASE x.e = "Assign" -> execute_expr(x.r, e, heap, c).err
          [] x.e = "TypedAssign" -> Then(execute_expr(x.t, e, heap, c), x.r)
          [] x.e = "TypeExpr" -> execute_expr(x.t, e, heap, c).err
          [] x.e = "FuncTypeExpr" -> EvalTypes(x.arg_types, 1, e, heap, c).err
          [] OTHER -> execute_expr(x, e, heap, c).err

IsCombined(x) ==
    /\ x.e = "Call"
    /\ x.f.e = "Group"
    /\ x.f.x.e = "Binary"
    /\ x.f.x.l.e = "Symbol"
    /\ x.f.x.r.e = "Symbol"

\* the name n is bound to a function in the root scope
IsFunc(heap, n) == HoldsValue(heap, 1, n) /\ heap[1].symbols[n].v.k = "func"

\* two evaluations agree: both fail, or both give the same value
Agree(err, val, r) == (err = "" <=> r.err = "") /\ (err = "" => val = r.v)

\* C22: for two functions f and g of equal arity, `f op g` is a function with
\* the parameters of f, and (f op g)(a) gives what `f(a) op g(a)` gives, also
\* when the body of g refers to an outer variable named as a parameter of f;
\* for different arities `f op g` fails with an arity error
C22_FunctionComposition ==
    [][(/\ Executed
        /\ IsCombined(res'.stmt)
        /\ IsFunc(envs, res'.stmt.f.x.l.name)
        /\ IsFunc(envs, res'.stmt.f.x.r.name))
          => LET x == res'.stmt
                 f == envs[1].symbols[x.f.x.l.name].v
                 g == envs[1].symbols[x.f.x.r.name].v
                 h == execute_expr(x.f.x, 1, envs, rc)
                 pointwise == execute_expr(Binary(Call(x.f.x.l, x.args), x.f.x.op,
                                                  Call(x.f.x.r, x.args)), 1, envs, rc)
             IN  IF Len(f.arg_names) # Len(g.arg_names)
                 THEN res'.err = "ArityError"
                 ELSE /\ h.err = ""
                      /\ h.v.k = "func"
                      /\ h.v.arg_names = f.arg_names
                      /\ Agree(res'.err, res'.val, pointwise)]_vars

\* the statement is (l op r)(args)
IsBinaryCall(x) == x.e = "Call" /\ x.f.e = "Group" /\ x.f.x.e = "Binary"

\* the statement is (op x)(args)
IsUnaryCall(x) == x.e = "Call" /\ x.f.e = "Group" /\ x.f.x.e = "Unary"

\* the value of an operand of the operator of the statement
OperandValue(operand) == execute_expr(operand, 1, envs, rc)

\* C23: for a function f and a value c that is no function, `f op c` and
\* `c op f` are functions with the parameters and the environment of f whose
\* calls give `f(a) op c` and `c op f(a)`, and `-f` is a function with the
\* parameters and the codomain of f whose call gives `-(f(a))`
C23_OperatorLifting ==
    [][Executed =>
          LET x == res'.stmt
              h == execute_expr(x.f.x, 1, envs, rc)
              Lifted(f) ==
                  /\ h.err = ""
                  /\ h.v.k = "func"
                  /\ h.v.arg_names = f.arg_names
          IN  /\ (/\ IsBinaryCall(x)
                  /\ OperandValue(x.f.x.l).err = ""
                  /\ OperandValue(x.f.x.r).err = ""
                  /\ OperandValue(x.f.x.l).v.k = "func"
                  /\ OperandValue(x.f.x.r).v.k # "func")
                    => /\ Lifted(OperandValue(x.f.x.l).v)
                       /\ h.v.env = OperandValue(x.f.x.l).v.env
                       /\ Agree(res'.err, res'.val,
                                execute_expr(Binary(Call(x.f.x.l, x.args), x.f.x.op,
                                                    x.f.x.r), 1, envs, rc))
              /\ (/\ IsBinaryCall(x)
                  /\ OperandValue(x.f.x.l).err = ""
                  /\ OperandValue(x.f.x.r).err = ""
                  /\ OperandValue(x.f.x.l).v.k # "func"
                  /\ OperandValue(x.f.x.r).v.k = "func")
                    => /\ Lifted(OperandValue(x.f.x.r).v)
                       /\ h.v.env = OperandValue(x.f.x.r).v.env
                       /\ Agree(res'.err, res'.val,
                                execute_expr(Binary(x.f.x.l, x.f.x.op,
                                                    Call(x.f.x.r, x.args)), 1, envs, rc))
              /\ (/\ IsUnaryCall(x)
                  /\ OperandValue(x.f.x.x).err = ""
                  /\ OperandValue(x.f.x.x).v.k = "func")
                    => /\ Lifted(OperandValue(x.f.x.x).v)
                       /\ h.v.codomain = OperandValue(x.f.x.x).v.codomain
                       /\ Agree(res'.err, res'.val,
                                execute_expr(Unary(x.f.x.op, Call(x.f.x.x, x.args)),
                                             1, envs, rc))]_vars

(***************************************************************************)
(* Partial application.                                                    *)
(***************************************************************************)
\* the names of the symbols that occur free in an expression
RECURSIVE FreeSymbols(_)
FreeSymbols(x) ==
    CASE x.e = "Symbol" -> {x.name}
      [] x.e \in {"Group", "Unary"} -> FreeSymbols(x.x)
      [] x.e = "Binary" -> FreeSymbols(x.l) \cup FreeSymbols(x.r)
      [] x.e \in {"Tuple", "Set"} -> UNION {FreeSymbols(x.items[i]) : i \in DOMAIN x.items}
      [] x.e = "Call" ->
            FreeSymbols(x.f) \cup
            UNION {FreeSymbols(x.args[i]) : i \in {j \in DOMAIN x.args : x.args[j] # Elided}}
      [] x.e = "Func" -> FreeSymbols(x.body) \ {x.params[i] : i \in DOMAIN x.params}
      [] OTHER -> {}

\* the statement keeps, under a name, the result of a call that leaves a
\* parameter of the function f unfilled
IsPartialCall(x, heap) ==
    /\ x.e = "Assign"
    /\ x.r.e = "Call"
    /\ x.r.f.e = "Symbol"
    /\ IsFunc(heap, x.r.f.name)
    /\ LET f == heap[1].symbols[x.r.f.name].v
       IN  \/ Len(x.r.args) < Len(f.arg_names)
           \/ \E i \in DOMAIN x.r.args : x.r.args[i] = Elided

\* the names of the parameters the call leaves unfilled
Retained(f, args) ==
    {f.arg_names[i] : i \in {j \in DOMAIN f.arg_names : j > Len(args) \/ args[j] = Elided}}

\* new is old with every symbol not in `retained` replaced by a literal of the
\* value the name has in scope e
RECURSIVE IsCurried(_, _, _, _, _)
IsCurried(old, new, retained, heap, e) ==
    CASE old.e = "Symbol" ->
            IF old.name \in retained THEN new = old
            ELSE /\ Env_get(heap, e, old.name).s = "Value"
                 /\ new = Literal(Env_get(heap, e, old.name).v)
      [] old.e \in {"Group", "Unary"} ->
            new.e = old.e /\ IsCurried(old.x, new.x, retained, heap, e)
      [] old.e = "Binary" ->
            /\ new.e = old.e
            /\ new.op = old.op
            /\ IsCurried(old.l, new.l, retained, heap, e)
            /\ IsCurried(old.r, new.r, retained, heap, e)
      [] old.e = "Func" ->
            /\ new.e = old.e
            /\ new.params = old.params
            /\ IsCurried(old.body, new.body,
                         retained \cup {old.params[i] : i \in DOMAIN old.params}, heap, e)
      [] OTHER -> new = old

\* C24: the body of the function a partial call returns is the body of the
\* called function with every symbol that is not an unfilled parameter replaced
\* by a literal of the value the name had in the call scope, and has no free
\* symbol but the unfilled parameters
C24_CurriedBody ==
    [][(/\ Executed
        /\ IsPartialCall(res'.stmt, envs)
        /\ res'.err = "")
          => LET f == envs[1].symbols[res'.stmt.r.f.name].v
                 g == res'.val
                 retained == Retained(f, res'.stmt.r.args)
             IN  /\ g.k = "func"
                 /\ FreeSymbols(g.expr) \subseteq retained
                 /\ IsCurried(f.expr, g.expr, retained, envs', g.env)]_vars

(***************************************************************************)
(* Shadowing in the two rewrites of a body.                                *)
(***************************************************************************)
\* a function literal occurs in the expression
RECURSIVE HasFuncLiteral(_)
HasFuncLiteral(x) ==
    CASE x.e = "Func" -> TRUE
      [] x.e \in {"Group", "Unary"} -> HasFuncLiteral(x.x)
      [] x.e = "Binary" -> HasFuncLiteral(x.l) \/ HasFuncLiteral(x.r)
      [] OTHER -> FALSE

\* new is old with every free occurrence of a name of `renaming` replaced by
\* the name it maps to; an occurrence under a function literal that has the name
\* as a parameter is not free
RECURSIVE IsRenamed(_, _, _)
IsRenamed(old, new, renaming) ==
    CASE old.e = "Symbol" ->
            IF old.name \in DOMAIN renaming THEN new = Symbol(renaming[old.name])
            ELSE new = old
      [] old.e \in {"Group", "Unary"} -> new.e = old.e /\ IsRenamed(old.x, new.x, renaming)
      [] old.e = "Binary" ->
            /\ new.e = old.e
            /\ new.op = old.op
            /\ IsRenamed(old.l, new.l, renaming)
            /\ IsRenamed(old.r, new.r, renaming)
      [] old.e = "Func" ->
            /\ new.e = old.e
            /\ new.params = old.params
            /\ IsRenamed(old.body, new.body,
                         [n \in DOMAIN renaming \ {old.params[i] : i \in DOMAIN old.params}
                            |-> renaming[n]])
      [] OTHER -> new = old

\* the statement keeps `l op r`, on two names, under a name
IsComposition(x) ==
    /\ x.e = "Assign"
    /\ x.r.e = "Binary"
    /\ x.r.l.e = "Symbol"
    /\ x.r.r.e = "Symbol"

\* C25: on a body that holds a function literal, both rewrites leave the
\* occurrences of a name inside a literal that rebinds it as they are and
\* rewrite the occurrences of the names the literal does not rebind: the
\* renaming of g's parameters in `f op g`, and the replacement by literals in a
\* partial call
C25_RewritesRespectShadowing ==
    [][Executed =>
          LET x == res'.stmt
          IN  /\ (/\ IsComposition(x)
                  /\ IsFunc(envs, x.r.l.name)
                  /\ IsFunc(envs, x.r.r.name)
                  /\ HasFuncLiteral(envs[1].symbols[x.r.r.name].v.expr))
                    => LET f == envs[1].symbols[x.r.l.name].v
                           g == envs[1].symbols[x.r.r.name].v
                       IN  /\ res'.err = ""
                           /\ IsRenamed(g.expr, res'.val.expr.r.x,
                                        [n \in {g.arg_names[i] : i \in DOMAIN g.arg_names} |->
                                            f.arg_names[CHOOSE i \in DOMAIN g.arg_names :
                                                            g.arg_names[i] = n]])
              /\ (/\ IsPartialCall(x, envs)
                  /\ HasFuncLiteral(envs[1].symbols[x.r.f.name].v.expr))
                    => LET f == envs[1].symbols[x.r.f.name].v
                       IN  /\ res'.err = ""
                           /\ IsCurried(f.expr, res'.val.expr, Retained(f, x.r.args),
                                        envs', res'.val.env)]_vars

(***************************************************************************)
(* Functions without a declared signature.                                 *)
(***************************************************************************)
\* the statement is the definition name(params) = body
IsDefinition(x) == x.e = "Assign" /\ x.r.e = "Func"

\* the statement is a call of a name that supplies a literal for every one of
\* the parameters of the function f
IsFullCall(x, heap) ==
    /\ x.e = "Call"
    /\ x.f.e = "Symbol"
    /\ IsFunc(heap, x.f.name)
    /\ Len(x.args) = Len(heap[1].symbols[x.f.name].v.arg_names)
    /\ \A i \in DOMAIN x.args : x.args[i].e = "Literal"

\* every parameter of f is constrained by Univ and by nothing else
Unconstrained(f, heap) ==
    \A i \in DOMAIN f.arg_names :
        /\ f.arg_names[i] \in DOMAIN heap[f.env].symbols
        /\ heap[f.env].symbols[f.arg_names[i]].s = "Type"
        /\ heap[f.env].symbols[f.arg_names[i]].set.set = Infinite("Univ")

\* the value of the body of f with every parameter bound to its argument
BodyValue(f, args, heap, c) ==
    execute_expr(f.expr, Len(heap) + 1,
                 Append(heap, [parent |-> heap[f.env].parent,
                               symbols |-> [n \in {f.arg_names[i] : i \in DOMAIN f.arg_names} |->
                                              ValueSym(args[CHOOSE i \in DOMAIN f.arg_names :
                                                                f.arg_names[i] = n].v)]]),
                 c)

\* C26: a function defined without a declared signature has every parameter
\* constrained by Univ only, and a call that supplies all its parameters, with
\* whatever values, gives the value of the body with each parameter bound to its
\* argument
C26_UnconstrainedFunction ==
    [][Executed =>
          LET x == res'.stmt
          IN  /\ (/\ IsDefinition(x)
                  /\ ~HoldsFuncType(envs, 1, x.name)
                  /\ res'.err = "")
                    => res'.val.k = "func" /\ Unconstrained(res'.val, envs')
              /\ (/\ IsFullCall(x, envs)
                  /\ Unconstrained(envs[1].symbols[x.f.name].v, envs))
                    => Agree(res'.err, res'.val,
                             BodyValue(envs[1].symbols[x.f.name].v, x.args, envs, rc))]_vars

(***************************************************************************)
(* Subsets.                                                                *)
(***************************************************************************)
\* every element of the finite set a is an element of the finite set b
IsSubset(a, b) ==
    \A i \in DOMAIN a.elements : \E j \in DOMAIN b.elements :
        SameValue(a.elements[i], b.elements[j])

\* C27: is_subset(a, b) on two finite sets answers true exactly when every
\* element of a is an element of b, and fails, with no answer, when one of the
\* two sets is not finite
C27_Subset ==
    probe.op = "subset" =>
        IF probe.a.set.t = "Finite" /\ probe.b.set.t = "Finite"
        THEN /\ probe.variant = IF IsSubset(probe.a.set, probe.b.set) THEN "yes" ELSE "no"
             /\ probe.canon = probe.variant
        ELSE /\ probe.variant \notin {"yes", "no"}
             /\ probe.canon \notin {"yes", "no"}

(***************************************************************************)
(* Equality of values as an equivalence.                                   *)
(***************************************************************************)
\* C28: Val::compare is reflexive on every value, the boolean false included,
\* symmetric and transitive, two values that compare equal have equal hashes,
\* and a finite set contains every element it was built from
C28_EqualityIsEquivalence ==
    /\ probe.op = "compare" =>
          /\ probe.a = probe.b => probe.eq
          /\ probe.eq => compare(probe.b, probe.a)
          /\ probe.eq => \A c \in ProbeValues : compare(probe.b, c) => compare(probe.a, c)
          /\ probe.eq => probe.ha = probe.hb
    /\ probe.op = "set" =>
          \A i \in DOMAIN probe.xs : CanonSet_contains(probe.a.set, probe.xs[i]) = "yes"

(***************************************************************************)
(* The parameters of a function in its own scope.                          *)
(***************************************************************************)
\* C29: every parameter name of every function the program has bound resolves,
\* in the scope of the function, to a type constraint and not to a value, and
\* no call reaches the unreachable!() of Func::call
C29_ParametersAreTypes ==
    /\ res.err # "Unreachable"
    /\ \A n \in BoundFuncs(envs, 1) :
          LET f == envs[1].symbols[n].v
          IN  \A i \in DOMAIN f.arg_names :
                  Env_get(envs, f.env, f.arg_names[i]).s = "Type"

(***************************************************************************)
(* A call leaves the scopes it found.                                      *)
(***************************************************************************)
\* the call the statement makes: the statement itself, or the right side of
\* the assignment that keeps its result
CallOf(x) == IF x.e = "Assign" THEN x.r ELSE x

IsCallStmt(x) == x.e = "Call" \/ (x.e = "Assign" /\ x.r.e = "Call")

\* the call made again after the step gives what it gave: the same failure,
\* the same value, or a function with the same parameters and body whose
\* scope holds what the scope of the first result holds
SameAgain(err, val, heap, again) ==
    /\ again.err = err
    /\ err = "" =>
          IF val.k = "func"
          THEN /\ again.v.k = "func"
               /\ again.v.arg_names = val.arg_names
               /\ again.v.expr = val.expr
               /\ again.envs[again.v.env] = heap[val.env]
          ELSE again.v = val

\* C30: a full or partial call changes no scope that existed before it, neither
\* the scope of the closure nor that of the caller, never fails with a
\* reassignment error, and made again with the same arguments gives the same
\* result
C30_CallLeavesScopes ==
    [][(/\ Executed
        /\ IsCallStmt(res'.stmt)
        /\ CallOf(res'.stmt).f.e = "Symbol"
        /\ IsFunc(envs, CallOf(res'.stmt).f.name))
          => LET x == res'.stmt
                 made == execute_expr(CallOf(x), 1, envs, rc)
             IN  /\ \A e \in DOMAIN envs : e # 1 => envs'[e] = envs[e]
                 /\ x.e = "Call" => envs'[1] = envs[1]
                 /\ made.err # "ReassignmentError"
                 /\ x.e = "Call" => res'.err = made.err
                 /\ made.err = "" => \A e \in DOMAIN envs : made.envs[e] = envs[e]
                 /\ SameAgain(made.err, made.v, made.envs,
                              execute_expr(CallOf(x), 1, envs', rc'))]_vars

\* f(2) was called twice and printed 4 twice
C30_Witness ==
    /\ steps = 4
    /\ res.err = ""
    /\ res.stmt = Call(Symbol("f"), <<Num(2)>>)
    /\ stdout = <<Line("", IntV(4)), Line("", IntV(4))>>

====
